---- MODULE Spec2Model ----
(***************************************************************************)
(* A model of SqlHelper, the statement compiler of bigal: the where-clause *)
(* compiler (_buildWhere and its helpers) and the SELECT / COUNT / INSERT  *)
(* / UPDATE / DELETE statement builders.                                   *)
(*                                                                         *)
(* The compiler is a set of pure functions, so the state machine draws the *)
(* arguments of one call from bounded sets and records what the call       *)
(* returned or threw.                                                      *)
(*                                                                         *)
(* JavaScript values are tagged records; `undefined` is a value of its own *)
(* (Undefined).  An optional string argument (propertyName, comparer) that *)
(* is absent is the empty string: the code only ever tests these for       *)
(* truthiness, and '' is falsy as well.                                    *)
(*                                                                         *)
(* A SQL string is a sequence of lexical tokens, a token being a piece of  *)
(* text or a placeholder; Render gives the JavaScript string.             *)
(*                                                                         *)
(* The source names the metadata argument `schema` in some functions and   *)
(* `model` in others (schema.attributes / model.columnsByPropertyName,     *)
(* getPrimaryKeyPropertyName / model.primaryKeyColumn); the model reads    *)
(* both as the one metadata object of the model being queried.             *)
(***************************************************************************)
EXTENDS Integers, Sequences, FiniteSets, TLC

VARIABLES call, result

vars == <<call, result>>

(***************************************************************************)
(* JavaScript values                                                       *)
(***************************************************************************)

Undefined == [t |-> "undefined"]

Null == [t |-> "null"]

Str(s) == [t |-> "string", s |-> s]

Num(n) == [t |-> "number", n |-> n]

Bool(b) == [t |-> "boolean", b |-> b]

DateValue == [t |-> "date"]

Arr(a) == [t |-> "array", a |-> a]

\* an object is the sequence of its own enumerable entries, in key order
Obj(o) == [t |-> "object", o |-> o]

Entry(k, v) == [k |-> k, v |-> v]

isUndefined(v) == v.t = "undefined"

isNull(v) == v.t = "null"

isNil(v) == v.t \in {"undefined", "null"}

isString(v) == v.t = "string"

isArray(v) == v.t = "array"

isDate(v) == v.t = "date"

\* lodash isObject: arrays, dates and plain objects, not null
isObject(v) == v.t \in {"array", "object", "date"}

\* value[key]
Get(v, key) ==
  IF v.t = "object" /\ \E i \in 1..Len(v.o) : v.o[i].k = key
  THEN v.o[CHOOSE i \in 1..Len(v.o) : v.o[i].k = key].v
  ELSE Undefined

\* strings of the input domain that hold an upper-case letter, with their
\* lower-case form
MixedCase == {"Foo"}

LowerForm(s) == IF s = "Foo" THEN "foo" ELSE s

Wildcards == {"", "%"}

\* String.prototype.toLowerCase over the strings the model can form
toLowerCase(s) ==
  IF \E b \in MixedCase, pre \in Wildcards, post \in Wildcards : s = pre \o b \o post
  THEN LET w == CHOOSE w \in MixedCase \X Wildcards \X Wildcards :
                    s = w[2] \o w[1] \o w[3]
       IN w[2] \o LowerForm(w[1]) \o w[3]
  ELSE s

(***************************************************************************)
(* SQL text                                                                *)
(***************************************************************************)

\* a piece of query text
Txt(s) == [s |-> s]

\* the placeholder $n; v remembers the value that was pushed for it
Placeholder(n, v) == [n |-> n, v |-> v]

IsPlaceholder(tok) == "n" \in DOMAIN tok

Quoted(name) == Txt("\"" \o name \o "\"")

RECURSIVE Render(_)
Render(q) ==
  IF q = <<>> THEN ""
  ELSE (IF IsPlaceholder(Head(q)) THEN "$" \o ToString(Head(q).n) ELSE Head(q).s)
       \o Render(Tail(q))

\* Array.prototype.join over fragments
RECURSIVE Join(_, _)
Join(frags, sep) ==
  IF frags = <<>> THEN <<>>
  ELSE IF Len(frags) = 1 THEN frags[1]
  ELSE frags[1] \o <<Txt(sep)>> \o Join(Tail(frags), sep)

\* the placeholder indices of a fragment, left to right
RECURSIVE PlaceholderIndices(_)
PlaceholderIndices(q) ==
  IF q = <<>> THEN <<>>
  ELSE IF IsPlaceholder(Head(q)) THEN <<Head(q).n>> \o PlaceholderIndices(Tail(q))
  ELSE PlaceholderIndices(Tail(q))

(***************************************************************************)
(* Errors: one kind per family of throw sites                              *)
(***************************************************************************)

NoError == ""

InvalidArgumentError == "InvalidArgumentError"

MissingRequiredFieldError == "MissingRequiredFieldError"

UnknownRelatedModelError == "UnknownRelatedModelError"

UndefinedValueError == "UndefinedValueError"

UnknownPropertyError == "UnknownPropertyError"

PropertyNameNotDefinedError == "PropertyNameNotDefinedError"

InvalidConstraintError == "InvalidConstraintError"

UnsupportedOperatorError == "UnsupportedOperatorError"

\* a TypeError of the runtime (member access on undefined, call of a
\* method the value does not have, iteration of a non-iterable)
TypeError == "TypeError"

\* what a compile step returns: the fragment, the params list as it stands,
\* and the error thrown, if any
Ok(q, p) == [q |-> q, p |-> p, e |-> NoError]

Throw(e, p) == [q |-> <<>>, p |-> p, e |-> e]

(***************************************************************************)
(* Model metadata                                                          *)
(***************************************************************************)

NoDefault == [kind |-> "none"]

\* defaultsTo given as a value
DefaultValue(v) == [kind |-> "value", v |-> v]

\* defaultsTo given as a function; v is what a call of it returns
DefaultFunction(v) == [kind |-> "function", v |-> v]

Column(propertyName, name, type) ==
  [propertyName |-> propertyName, name |-> name, type |-> type,
   required |-> FALSE, defaultsTo |-> NoDefault, createDate |-> FALSE,
   updateDate |-> FALSE, model |-> "", collection |-> FALSE,
   primaryKey |-> FALSE]

\* The model the statements are built for, after tests/models/Product (id,
\* name, sku, aliases, store, categories), extended with one column of every
\* type and default the compiler distinguishes.
ProductColumns ==
  << [Column("id", "id", "integer") EXCEPT !.primaryKey = TRUE],
     [Column("name", "name", "string") EXCEPT !.required = TRUE],
     Column("sku", "sku", "string"),
     [Column("aliases", "alias_names", "string[]")
        EXCEPT !.required = TRUE, !.defaultsTo = DefaultValue(Arr(<<>>))],
     [Column("store", "store_id", "") EXCEPT !.model = "Store"],
     [Column("categories", "categories", "")
        EXCEPT !.collection = TRUE, !.required = TRUE],
     Column("tags", "tags", "array"),
     Column("meta", "meta", "json"),
     Column("price", "price", "float"),
     Column("isActive", "is_active", "boolean"),
     Column("counts", "counts", "integer[]"),
     Column("ratios", "ratios", "float[]"),
     Column("flags", "flags", "boolean[]"),
     [Column("serial", "serial", "string")
        EXCEPT !.required = TRUE, !.defaultsTo = DefaultFunction(Str("s1"))],
     [Column("createdAt", "created_at", "datetime")
        EXCEPT !.required = TRUE, !.createDate = TRUE],
     [Column("updatedAt", "updated_at", "datetime")
        EXCEPT !.required = TRUE, !.updateDate = TRUE] >>

Product ==
  [name |-> "Product", tableName |-> "products", columns |-> ProductColumns,
   autoUpdatedAt |-> FALSE]

\* the same model with the update timestamp stamped by UPDATE
ProductWithCreateUpdateDateTracking ==
  [Product EXCEPT !.name = "ProductWithCreateUpdateDateTracking",
                  !.autoUpdatedAt = TRUE]

StoreColumns ==
  << [Column("id", "id", "integer") EXCEPT !.primaryKey = TRUE],
     Column("name", "name", "string") >>

Store ==
  [name |-> "Store", tableName |-> "stores", columns |-> StoreColumns,
   autoUpdatedAt |-> FALSE]

\* a model whose primary key is not called id and is not its first column
LegacyColumns ==
  << [Column("title", "title", "string") EXCEPT !.required = TRUE],
     [Column("code", "legacy_code", "string") EXCEPT !.primaryKey = TRUE],
     [Column("parts", "parts", "") EXCEPT !.collection = TRUE] >>

Legacy ==
  [name |-> "Legacy", tableName |-> "legacy", columns |-> LegacyColumns,
   autoUpdatedAt |-> FALSE]

\* a model that declares no primary key
LogColumns == << Column("line", "line", "string") >>

Log ==
  [name |-> "Log", tableName |-> "logs", columns |-> LogColumns,
   autoUpdatedAt |-> FALSE]

\* the registry of models, keyed by lower-cased model name
modelSchemasByGlobalId == [n \in {"product", "store"} |->
                             IF n = "product" THEN Product ELSE Store]

\* String.prototype.toLowerCase over model names
LowerModelName(n) ==
  CASE n = "Store" -> "store"
    [] n = "Product" -> "product"
    [] OTHER -> n

HasColumn(schema, propertyName) ==
  \E i \in 1..Len(schema.columns) : schema.columns[i].propertyName = propertyName

\* schema.attributes[propertyName] / model.columnsByPropertyName[propertyName],
\* for a property the model has
Attribute(schema, propertyName) ==
  schema.columns[CHOOSE i \in 1..Len(schema.columns) :
                    schema.columns[i].propertyName = propertyName]

HasPrimaryKeyColumn(schema) ==
  \E i \in 1..Len(schema.columns) : schema.columns[i].primaryKey

\* model.primaryKeyColumn, for a model that declares one
primaryKeyColumn(schema) ==
  schema.columns[CHOOSE i \in 1..Len(schema.columns) :
                    /\ schema.columns[i].primaryKey
                    /\ \A j \in 1..(i - 1) : ~schema.columns[j].primaryKey]

getPrimaryKeyPropertyName(schema) ==
  IF HasPrimaryKeyColumn(schema) THEN primaryKeyColumn(schema).propertyName
  ELSE "id"

\* the attribute's type, lower-cased, '' when there is no attribute or type
LowerType(schema, propertyName) ==
  IF propertyName # "" /\ HasColumn(schema, propertyName)
  THEN Attribute(schema, propertyName).type
  ELSE ""

\* the array types, were 'array' the only one
ArrayTypesOnlyArray == {"array"}

\* the attribute types the array branches of _buildWhere take for arrays
ArrayTypes == {"array", "string[]", "integer[]", "float[]", "boolean[]"}

\* _getColumnName: [e |-> error, name |-> column name]
getColumnName(schema, propertyName) ==
  IF propertyName = "" THEN [e |-> PropertyNameNotDefinedError, name |-> ""]
  ELSE IF ~HasColumn(schema, propertyName)
  THEN [e |-> UnknownPropertyError, name |-> ""]
  ELSE [e |-> NoError, name |-> Attribute(schema, propertyName).name]

(***************************************************************************)
(* The where-clause compiler                                               *)
(***************************************************************************)

isComparer(value) ==
  value \in {"!", "not", "or", "and", "contains", "startsWith", "endsWith",
             "like", "<", "<=", ">", ">="}

\* WrapPattern with the wildcards of startsWith and endsWith exchanged
WrapPatternSwapped(comparer, s) ==
  CASE comparer = "contains" -> "%" \o s \o "%"
    [] comparer = "startsWith" -> "%" \o s
    [] comparer = "endsWith" -> s \o "%"

\* the wildcard wrapping of contains / startsWith / endsWith
WrapPattern(comparer, s) ==
  CASE comparer = "contains" -> "%" \o s \o "%"
    [] comparer = "startsWith" -> s \o "%"
    [] comparer = "endsWith" -> "%" \o s

\* ComparisonOperator keeping the strictness of the comparer under negation
ComparisonOperatorSameStrictness(comparer, isNegated) ==
  CASE comparer = "<" -> IF isNegated THEN ">" ELSE "<"
    [] comparer = "<=" -> IF isNegated THEN ">=" ELSE "<="
    [] comparer = ">" -> IF isNegated THEN "<" ELSE ">"
    [] comparer = ">=" -> IF isNegated THEN "<=" ELSE ">="

\* the SQL operator of a relational comparer, plain and negated
ComparisonOperator(comparer, isNegated) ==
  CASE comparer = "<" -> IF isNegated THEN ">=" ELSE "<"
    [] comparer = "<=" -> IF isNegated THEN ">" ELSE "<="
    [] comparer = ">" -> IF isNegated THEN "<=" ELSE ">"
    [] comparer = ">=" -> IF isNegated THEN "<" ELSE ">="

\* buildComparisonOperatorStatement numbering the placeholder before the
\* value is pushed
buildComparisonOperatorStatementStaleIndex(schema, propertyName, comparer, isNegated, value, params) ==
  LET column == getColumnName(schema, propertyName)
      pushed == Append(params, value)
      placeholder == Placeholder(Len(params), value)
      propertyType == Attribute(schema, propertyName).type
  IN IF column.e # NoError THEN Throw(column.e, params)
     ELSE IF isNull(value)
     THEN Ok(<<Quoted(column.name), Txt(IF isNegated THEN " IS NOT NULL" ELSE " IS NULL")>>,
             params)
     ELSE IF comparer \in {"<", "<=", ">", ">="}
     THEN IF propertyType \in {"array", "json"} THEN Throw(UnsupportedOperatorError, pushed)
          ELSE Ok(<<Quoted(column.name), Txt(ComparisonOperator(comparer, isNegated)),
                    placeholder>>, pushed)
     ELSE IF propertyType = "array"
     THEN Ok(<<placeholder, Txt(IF isNegated THEN "<>ALL(" ELSE "=ANY("),
               Quoted(column.name), Txt(")")>>, pushed)
     ELSE Ok(<<Quoted(column.name), Txt(IF isNegated THEN "<>" ELSE "="), placeholder>>,
             pushed)

\* buildComparisonOperatorStatement binding null like any other value
buildComparisonOperatorStatementNullBound(schema, propertyName, comparer, isNegated, value, params) ==
  LET column == getColumnName(schema, propertyName)
      pushed == Append(params, value)
      placeholder == Placeholder(Len(pushed), value)
      propertyType == Attribute(schema, propertyName).type
      supportsLessThanGreaterThan == propertyType # "array" /\ propertyType # "json"
  IN IF column.e # NoError THEN Throw(column.e, params)
     ELSE IF comparer \in {"<", "<=", ">", ">="}
     THEN IF ~supportsLessThanGreaterThan THEN Throw(UnsupportedOperatorError, pushed)
          ELSE Ok(<<Quoted(column.name), Txt(ComparisonOperator(comparer, isNegated)),
                    placeholder>>, pushed)
     ELSE IF propertyType = "array"
     THEN Ok(<<placeholder, Txt(IF isNegated THEN "<>ALL(" ELSE "=ANY("),
               Quoted(column.name), Txt(")")>>, pushed)
     ELSE Ok(<<Quoted(column.name), Txt(IF isNegated THEN "<>" ELSE "="), placeholder>>,
             pushed)

buildComparisonOperatorStatement(schema, propertyName, comparer, isNegated, value, params) ==
  LET column == getColumnName(schema, propertyName)
      pushed == Append(params, value)
      placeholder == Placeholder(Len(pushed), value)
      propertyType == Attribute(schema, propertyName).type
      supportsLessThanGreaterThan == propertyType # "array" /\ propertyType # "json"
  IN IF column.e # NoError THEN Throw(column.e, params)
     ELSE IF isNull(value)
     THEN Ok(<<Quoted(column.name), Txt(IF isNegated THEN " IS NOT NULL" ELSE " IS NULL")>>,
             params)
     ELSE IF comparer \in {"<", "<=", ">", ">="}
     THEN IF ~supportsLessThanGreaterThan THEN Throw(UnsupportedOperatorError, pushed)
          ELSE Ok(<<Quoted(column.name), Txt(ComparisonOperator(comparer, isNegated)),
                    placeholder>>, pushed)
     ELSE IF propertyType = "array"
     THEN Ok(<<placeholder, Txt(IF isNegated THEN "<>ALL(" ELSE "=ANY("),
               Quoted(column.name), Txt(")")>>, pushed)
     ELSE Ok(<<Quoted(column.name), Txt(IF isNegated THEN "<>" ELSE "="), placeholder>>,
             pushed)

\* EXISTS(SELECT 1 FROM (SELECT unnest("c") AS "unnested_c") __unnested WHERE
UnnestPrefix(columnName) ==
  <<Txt("EXISTS(SELECT 1 FROM (SELECT unnest("), Quoted(columnName), Txt(") AS "),
    Quoted("unnested_" \o columnName), Txt(") __unnested WHERE ")>>

buildLikeOperatorStatement(schema, propertyName, isNegated, value, params) ==
  LET column == getColumnName(schema, propertyName)
      propertyType == LowerType(schema, propertyName)
      unnests == propertyType = "array" \/ propertyType = "string[]"
      \* the array branch, for an array of two or more elements
      lowerValues == Arr([i \in 1..Len(value.a) |-> Str(toLowerCase(value.a[i].s))])
      pushedArray == Append(params, lowerValues)
      arrayPlaceholder == Placeholder(Len(pushedArray), lowerValues)
      anyAll == Txt(IF isNegated THEN "<>ALL(" ELSE "=ANY(")
      \* a single-element array is replaced by its element
      single == IF isArray(value) THEN value.a[1] ELSE value
      pushed == Append(params, single)
      placeholder == Placeholder(Len(pushed), single)
  IN IF isArray(value) /\ Len(value.a) = 0
     THEN Ok(<<Txt(IF isNegated THEN "1=1" ELSE "1<>1")>>, params)
     ELSE IF isArray(value) /\ Len(value.a) > 1
     THEN IF \E i \in 1..Len(value.a) : ~isString(value.a[i]) THEN Throw(TypeError, params)
          ELSE IF column.e # NoError THEN Throw(column.e, params)
          ELSE IF unnests
          THEN Ok(UnnestPrefix(column.name)
                    \o <<Txt("lower("), Quoted("unnested_" \o column.name), Txt(")"),
                         anyAll, arrayPlaceholder, Txt("::TEXT[]))")>>, pushedArray)
          ELSE Ok(<<Txt("lower("), Quoted(column.name), Txt(")"), anyAll,
                    arrayPlaceholder, Txt("::TEXT[])")>>, pushedArray)
     ELSE IF ~isString(single) THEN Throw(InvalidConstraintError, params)
     ELSE IF column.e # NoError THEN Throw(column.e, params)
     ELSE IF single.s = ""
     THEN Ok(<<Quoted(column.name), Txt(IF isNegated THEN " != ''" ELSE " = ''")>>, params)
     ELSE IF unnests
     THEN Ok((IF isNegated THEN <<Txt("NOT ")>> ELSE <<>>)
               \o UnnestPrefix(column.name)
               \o <<Quoted("unnested_" \o column.name), Txt(" ILIKE "), placeholder,
                    Txt(")")>>, pushed)
     ELSE Ok(<<Quoted(column.name), Txt(IF isNegated THEN " NOT ILIKE " ELSE " ILIKE "),
               placeholder>>, pushed)

\* CastType with a float column cast as an integer one
CastTypeFloatAsInteger(propertyType) ==
  CASE propertyType \in {"int", "integer", "integer[]", "float", "float[]"} -> "::INTEGER[]"
    [] propertyType \in {"boolean", "boolean[]"} -> "::BOOLEAN[]"
    [] OTHER -> "::TEXT[]"

\* the cast of an array parameter
CastType(propertyType) ==
  CASE propertyType \in {"int", "integer", "integer[]"} -> "::INTEGER[]"
    [] propertyType \in {"float", "float[]"} -> "::NUMERIC[]"
    [] propertyType \in {"boolean", "boolean[]"} -> "::BOOLEAN[]"
    [] OTHER -> "::TEXT[]"

\* one recursive call of _buildWhere made from a loop
WhereCall(propertyName, comparer, value) ==
  [propertyName |-> propertyName, comparer |-> comparer, value |-> value]

\* the calls the nested-object loop makes for the entries of an object: a
\* comparer key becomes the comparer, any other key replaces propertyName
\* for this entry and the entries after it
RECURSIVE EntryCalls(_, _)
EntryCalls(entries, propertyName) ==
  IF entries = <<>> THEN <<>>
  ELSE LET key == Head(entries).k
           property == IF isComparer(key) THEN propertyName ELSE key
       IN <<WhereCall(property, IF isComparer(key) THEN key ELSE "", Head(entries).v)>>
            \o EntryCalls(Tail(entries), property)

\* the type the array branches go by: the attribute of propertyName, or
\* else the attribute named by the comparer
ArrayAttributeType(schema, propertyName, comparer) ==
  IF propertyName # "" /\ HasColumn(schema, propertyName)
  THEN LowerType(schema, propertyName)
  ELSE LowerType(schema, comparer)

\* the related model of a relation attribute, lower-cased
RelationName(schema, propertyName) ==
  LowerModelName(Attribute(schema, propertyName).model)

RECURSIVE buildWhere(_, _, _, _, _, _)
RECURSIVE buildAll(_, _, _, _, _)
RECURSIVE buildOrOperatorStatement(_, _, _, _)
RECURSIVE buildWhereArray(_, _, _, _, _, _)
RECURSIVE buildWhereObject(_, _, _, _, _)

\* a loop that pushes the result of one _buildWhere call per element, all
\* against the one params list; a throw ends the loop
buildAll(schema, isNegated, calls, params, fragments) ==
  IF calls = <<>> THEN [frags |-> fragments, p |-> params, e |-> NoError]
  ELSE LET r == buildWhere(schema, Head(calls).propertyName, Head(calls).comparer,
                           isNegated, Head(calls).value, params)
       IN IF r.e # NoError THEN [frags |-> <<>>, p |-> r.p, e |-> r.e]
          ELSE buildAll(schema, isNegated, Tail(calls), r.p, Append(fragments, r.q))

Reverse(list) == [i \in 1..Len(list) |-> list[Len(list) + 1 - i]]

\* buildOrOperatorStatement putting each clause in front of the earlier ones
buildOrOperatorStatementUnshift(schema, isNegated, value, params) ==
  LET r == buildAll(schema, isNegated,
                    [i \in 1..Len(value.a) |-> WhereCall("", "", value.a[i])],
                    params, <<>>)
      orClauses == Reverse([i \in 1..Len(r.frags) |->
                              <<Txt("(")>> \o r.frags[i] \o <<Txt(")")>>])
  IN IF ~isArray(value) THEN Throw(TypeError, params)
     ELSE IF r.e # NoError THEN Throw(r.e, r.p)
     ELSE IF Len(orClauses) = 1 THEN Ok(orClauses[1], r.p)
     ELSE IF isNegated THEN Ok(Join(orClauses, " AND "), r.p)
     ELSE Ok(<<Txt("(")>> \o Join(orClauses, " OR ") \o <<Txt(")")>>, r.p)

\* buildOrOperatorStatement joining the clauses with OR under negation too
buildOrOperatorStatementNegatedOr(schema, isNegated, value, params) ==
  LET r == buildAll(schema, isNegated,
                    [i \in 1..Len(value.a) |-> WhereCall("", "", value.a[i])],
                    params, <<>>)
      orClauses == [i \in 1..Len(r.frags) |-> <<Txt("(")>> \o r.frags[i] \o <<Txt(")")>>]
  IN IF ~isArray(value) THEN Throw(TypeError, params)
     ELSE IF r.e # NoError THEN Throw(r.e, r.p)
     ELSE IF Len(orClauses) = 1 THEN Ok(orClauses[1], r.p)
     ELSE Ok(<<Txt("(")>> \o Join(orClauses, " OR ") \o <<Txt(")")>>, r.p)

\* buildOrOperatorStatement without the return of a single clause as it is
buildOrOperatorStatementAlwaysGrouped(schema, isNegated, value, params) ==
  LET r == buildAll(schema, isNegated,
                    [i \in 1..Len(value.a) |-> WhereCall("", "", value.a[i])],
                    params, <<>>)
      orClauses == [i \in 1..Len(r.frags) |-> <<Txt("(")>> \o r.frags[i] \o <<Txt(")")>>]
  IN IF ~isArray(value) THEN Throw(TypeError, params)
     ELSE IF r.e # NoError THEN Throw(r.e, r.p)
     ELSE IF isNegated THEN Ok(Join(orClauses, " AND "), r.p)
     ELSE Ok(<<Txt("(")>> \o Join(orClauses, " OR ") \o <<Txt(")")>>, r.p)

\* buildOrOperatorStatement joining by OR with no parentheses around the group
buildOrOperatorStatementUngrouped(schema, isNegated, value, params) ==
  LET r == buildAll(schema, isNegated,
                    [i \in 1..Len(value.a) |-> WhereCall("", "", value.a[i])],
                    params, <<>>)
      orClauses == [i \in 1..Len(r.frags) |-> <<Txt("(")>> \o r.frags[i] \o <<Txt(")")>>]
  IN IF ~isArray(value) THEN Throw(TypeError, params)
     ELSE IF r.e # NoError THEN Throw(r.e, r.p)
     ELSE IF Len(orClauses) = 1 THEN Ok(orClauses[1], r.p)
     ELSE IF isNegated THEN Ok(Join(orClauses, " AND "), r.p)
     ELSE Ok(Join(orClauses, " OR "), r.p)

buildOrOperatorStatement(schema, isNegated, value, params) ==
  LET r == buildAll(schema, isNegated,
                    [i \in 1..Len(value.a) |-> WhereCall("", "", value.a[i])],
                    params, <<>>)
      orClauses == [i \in 1..Len(r.frags) |-> <<Txt("(")>> \o r.frags[i] \o <<Txt(")")>>]
  IN \* for..of over a string visits its characters: none for '', and the
     \* first one fails for want of a property name
     IF isString(value)
     THEN IF value.s = "" THEN Ok(IF isNegated THEN <<>> ELSE <<Txt("("), Txt(")")>>, params)
          ELSE Throw(PropertyNameNotDefinedError, params)
     ELSE IF ~isArray(value) THEN Throw(TypeError, params)
     ELSE IF r.e # NoError THEN Throw(r.e, r.p)
     ELSE IF Len(orClauses) = 1 THEN Ok(orClauses[1], r.p)
     ELSE IF isNegated THEN Ok(Join(orClauses, " AND "), r.p)
     ELSE Ok(<<Txt("(")>> \o Join(orClauses, " OR ") \o <<Txt(")")>>, r.p)

\* the array branch of the default case
buildWhereArray(schema, propertyName, comparer, isNegated, value, params) ==
  LET arrayType == ArrayAttributeType(schema, propertyName, comparer)
      column == getColumnName(schema, propertyName)
      nulls == SelectSeq(value.a, isNull)
      valueWithoutNull == SelectSeq(value.a, LAMBDA item : ~isNull(item))
      \* the IS NULL terms come first, whatever the position of the nulls
      n == buildAll(schema, isNegated,
                    [i \in 1..Len(nulls) |-> WhereCall(propertyName, "", Null)],
                    params, <<>>)
      perElement == Len(valueWithoutNull) = 1 \/ arrayType \in ArrayTypes
      r == buildAll(schema, isNegated,
                    [i \in 1..Len(valueWithoutNull) |->
                       WhereCall(propertyName, "", valueWithoutNull[i])],
                    n.p, n.frags)
      pushed == Append(n.p, Arr(valueWithoutNull))
      bound == Append(n.frags,
                      <<Quoted(column.name), Txt(IF isNegated THEN "<>ALL(" ELSE "=ANY("),
                        Placeholder(Len(pushed), Arr(valueWithoutNull)),
                        Txt(CastType(arrayType) \o ")")>>)
      orConstraints == IF valueWithoutNull = <<>> THEN n.frags
                       ELSE IF perElement THEN r.frags ELSE bound
      p == IF valueWithoutNull = <<>> THEN n.p ELSE IF perElement THEN r.p ELSE pushed
  IN IF Len(value.a) = 0
     THEN IF arrayType \in ArrayTypes
          THEN IF column.e # NoError THEN Throw(column.e, params)
               ELSE Ok(<<Quoted(column.name), Txt(IF isNegated THEN "<>'{}'" ELSE "='{}'")>>,
                       params)
          ELSE Ok(<<Txt(IF isNegated THEN "1=1" ELSE "1<>1")>>, params)
     ELSE IF n.e # NoError THEN Throw(n.e, n.p)
     ELSE IF Len(valueWithoutNull) > 1 /\ column.e # NoError THEN Throw(column.e, n.p)
     ELSE IF valueWithoutNull # <<>> /\ perElement /\ r.e # NoError THEN Throw(r.e, r.p)
     ELSE IF Len(orConstraints) = 1 THEN Ok(orConstraints[1], p)
     ELSE IF isNegated THEN Ok(Join(orConstraints, " AND "), p)
     ELSE Ok(<<Txt("(")>> \o Join(orConstraints, " OR ") \o <<Txt(")")>>, p)

\* the nested-object branch of the default case
buildWhereObject(schema, propertyName, isNegated, value, params) ==
  LET r == buildAll(schema, isNegated, EntryCalls(value.o, propertyName), params, <<>>)
  IN IF r.e # NoError THEN Throw(r.e, r.p)
     ELSE Ok(Join(r.frags, " AND "), r.p)

buildWhere(schema, propertyName, comparer, isNegated, value, params) ==
  LET key == IF comparer # "" THEN comparer ELSE propertyName
      isRelationObject ==
        /\ propertyName # ""
        /\ HasColumn(schema, propertyName)
        /\ Attribute(schema, propertyName).model # ""
        /\ isObject(value)
      relationPrimaryKey ==
        getPrimaryKeyPropertyName(modelSchemasByGlobalId[RelationName(schema, propertyName)])
  IN CASE key \in {"!", "not"} ->
            buildWhere(schema, propertyName, "", TRUE, value, params)
       [] key = "or" ->
            buildOrOperatorStatement(schema, isNegated, value, params)
       [] key \in {"contains", "startsWith", "endsWith"} ->
            IF isArray(value)
            THEN IF \E i \in 1..Len(value.a) : ~isString(value.a[i])
                 THEN Throw(InvalidConstraintError, params)
                 ELSE buildWhere(schema, propertyName, "like", isNegated,
                                 Arr([i \in 1..Len(value.a) |->
                                        Str(WrapPattern(key, value.a[i].s))]),
                                 params)
            ELSE IF isString(value)
            THEN buildWhere(schema, propertyName, "like", isNegated,
                            Str(WrapPattern(key, value.s)), params)
            ELSE Throw(InvalidConstraintError, params)
       [] key = "like" ->
            buildLikeOperatorStatement(schema, propertyName, isNegated, value, params)
       [] OTHER ->
            IF isUndefined(value) THEN Throw(UndefinedValueError, params)
            ELSE IF isRelationObject
                    /\ RelationName(schema, propertyName) \notin DOMAIN modelSchemasByGlobalId
            THEN Throw(UnknownRelatedModelError, params)
            ELSE IF isRelationObject /\ ~isUndefined(Get(value, relationPrimaryKey))
            THEN buildWhere(schema, propertyName, comparer, isNegated,
                            Get(value, relationPrimaryKey), params)
            ELSE IF isArray(value)
            THEN buildWhereArray(schema, propertyName, comparer, isNegated, value, params)
            ELSE IF isObject(value) /\ ~isDate(value)
            THEN buildWhereObject(schema, propertyName, isNegated, value, params)
            ELSE buildComparisonOperatorStatement(schema, propertyName, comparer,
                                                 isNegated, value, params)

\* buildWhereStatement prefixing WHERE to whatever _buildWhere returned
buildWhereStatementAlwaysWhere(schema, where, params) ==
  LET r == buildWhere(schema, "", "and", FALSE, where, params)
  IN IF ~isObject(where) THEN [whereStatement |-> <<>>, params |-> params, e |-> NoError]
     ELSE IF r.e # NoError THEN [whereStatement |-> <<>>, params |-> r.p, e |-> r.e]
     ELSE [whereStatement |-> <<Txt("WHERE ")>> \o r.q, params |-> r.p, e |-> NoError]

\* _buildWhereStatement: [whereStatement, params, e]; an undefined
\* whereStatement and an empty one are both the empty fragment, the callers
\* only test it for truthiness
buildWhereStatement(schema, where, params) ==
  LET r == buildWhere(schema, "", "and", FALSE, where, params)
  IN IF ~isObject(where) THEN [whereStatement |-> <<>>, params |-> params, e |-> NoError]
     ELSE IF r.e # NoError THEN [whereStatement |-> <<>>, params |-> r.p, e |-> r.e]
     ELSE [whereStatement |-> IF r.q # <<>> THEN <<Txt("WHERE ")>> \o r.q ELSE <<>>,
           params |-> r.p, e |-> NoError]

(***************************************************************************)
(* The statement builders                                                  *)
(***************************************************************************)

\* the select / returnSelect argument: left out, or a list of property names
NoSelect == [given |-> FALSE, list |-> <<>>]

SelectList(list) == [given |-> TRUE, list |-> list]

Contains(list, x) == \E i \in 1..Len(list) : list[i] = x

\* SelectedProperties pushing the primary key whether the list has it or not
SelectedPropertiesAlwaysPush(model, select) ==
  IF select.given
  THEN IF HasPrimaryKeyColumn(model)
       THEN Append(select.list, primaryKeyColumn(model).propertyName)
       ELSE select.list
  ELSE LET plain == SelectSeq(model.columns, LAMBDA column : ~column.collection)
       IN [i \in 1..Len(plain) |-> plain[i].propertyName]

\* the list _getColumnsToSelect iterates: the caller's list, which it
\* extends in place with the primary key, or all non-collection columns
SelectedProperties(model, select) ==
  IF select.given
  THEN IF HasPrimaryKeyColumn(model)
          /\ ~Contains(select.list, primaryKeyColumn(model).propertyName)
       THEN Append(select.list, primaryKeyColumn(model).propertyName)
       ELSE select.list
  ELSE LET plain == SelectSeq(model.columns, LAMBDA column : ~column.collection)
       IN [i \in 1..Len(plain) |-> plain[i].propertyName]

\* "column" AS "property", or "property" when the two names agree
ColumnSql(model, propertyName) ==
  LET column == Attribute(model, propertyName)
  IN IF column.name # propertyName
     THEN <<Quoted(column.name), Txt(" AS "), Quoted(propertyName)>>
     ELSE <<Quoted(propertyName)>>

\* _getColumnsToSelect: [q, e, select], select being the caller's list after
\* the call
getColumnsToSelect(model, select) ==
  LET properties == SelectedProperties(model, select)
      after == IF select.given THEN SelectList(properties) ELSE select
  IN IF \E i \in 1..Len(properties) : ~HasColumn(model, properties[i])
     THEN [q |-> <<>>, e |-> TypeError, select |-> after]
     ELSE [q |-> Join([i \in 1..Len(properties) |-> ColumnSql(model, properties[i])], ","),
           e |-> NoError, select |-> after]

\* what a statement builder returns: the query and params, or the error
Statement(query, params) == [query |-> query, params |-> params, e |-> NoError]

Failure(e) == [query |-> <<>>, params |-> <<>>, e |-> e]

\* Returning leaving the clause out unless a returnSelect is given
ReturningWhenSelected(model, returnRecords, returnSelect) ==
  LET columns == getColumnsToSelect(model, returnSelect)
  IN IF ~returnRecords \/ ~returnSelect.given THEN [q |-> <<>>, e |-> NoError]
     ELSE IF columns.e # NoError THEN [q |-> <<>>, e |-> columns.e]
     ELSE [q |-> <<Txt(" RETURNING ")>> \o columns.q, e |-> NoError]

\* the RETURNING clause INSERT, UPDATE and DELETE end with
Returning(model, returnRecords, returnSelect) ==
  LET columns == getColumnsToSelect(model, returnSelect)
  IN IF ~returnRecords THEN [q |-> <<>>, e |-> NoError]
     ELSE IF columns.e # NoError THEN [q |-> <<>>, e |-> columns.e]
     ELSE [q |-> <<Txt(" RETURNING ")>> \o columns.q, e |-> NoError]

\* ' ' + whereStatement, when there is one
WhereClause(where) ==
  IF where.whereStatement # <<>> THEN <<Txt(" ")>> \o where.whereStatement ELSE <<>>

getCountQueryAndParams(model, where) ==
  LET w == buildWhereStatement(model, where, <<>>)
  IN IF w.e # NoError THEN Failure(w.e)
     ELSE Statement(<<Txt("SELECT count(*) AS \"count\" FROM "), Quoted(model.tableName)>>
                      \o WhereClause(w), w.params)

getDeleteQueryAndParams(schema, where, returnRecords, returnSelect) ==
  LET w == buildWhereStatement(schema, where, <<>>)
      returning == Returning(schema, returnRecords, returnSelect)
  IN IF w.e # NoError THEN Failure(w.e)
     ELSE IF returning.e # NoError THEN Failure(returning.e)
     ELSE Statement(<<Txt("DELETE FROM "), Quoted(schema.tableName)>>
                      \o WhereClause(w) \o returning.q, w.params)

\* object[key] = v
Set(object, key, v) ==
  IF \E i \in 1..Len(object.o) : object.o[i].k = key
  THEN Obj([i \in 1..Len(object.o) |->
              IF object.o[i].k = key THEN Entry(key, v) ELSE object.o[i]])
  ELSE Obj(Append(object.o, Entry(key, v)))

\* JSON.stringify(v): a string, kept as the value it was made from
Stringified(v) == [t |-> "string", json |-> v]

\* the default of a column: what the defaultsTo function returns, the
\* defaultsTo value, the current time of a create/update date column
defaultValue(column) ==
  IF column.defaultsTo.kind \in {"function", "value"} THEN column.defaultsTo.v
  ELSE IF column.createDate \/ column.updateDate THEN DateValue
  ELSE Undefined

\* the entity after the defaults loop has dealt with one column
WithDefault(entity, column) ==
  IF ~isUndefined(defaultValue(column)) /\ isUndefined(Get(entity, column.propertyName))
  THEN Set(entity, column.propertyName, defaultValue(column))
  ELSE entity

\* insertDefaults looking for the values of a required column before the
\* defaults are set
RECURSIVE insertDefaultsValidateFirst(_, _, _, _)
insertDefaultsValidateFirst(model, k, entities, columnsToInsert) ==
  IF k > Len(model.columns)
  THEN [entities |-> entities, columnsToInsert |-> columnsToInsert, e |-> NoError]
  ELSE LET column == model.columns[k]
           defaulted == [i \in 1..Len(entities) |-> WithDefault(entities[i], column)]
           has == [i \in 1..Len(entities) |->
                     ~isUndefined(Get(defaulted[i], column.propertyName))]
       IN IF column.collection
          THEN insertDefaultsValidateFirst(model, k + 1, entities, columnsToInsert)
          ELSE IF column.required
                  /\ \E i \in 1..Len(entities) :
                       isUndefined(Get(entities[i], column.propertyName))
          THEN [entities |-> entities, columnsToInsert |-> columnsToInsert,
                e |-> MissingRequiredFieldError]
          ELSE insertDefaultsValidateFirst(model, k + 1, defaulted,
                                           IF \E i \in 1..Len(entities) : has[i]
                                           THEN Append(columnsToInsert, column)
                                           ELSE columnsToInsert)

\* The first loop of getInsertQueryAndParams over columns[k..]: sets the
\* defaults in the entities, throws for a required column an entity has no
\* value of, collects the columns at least one entity has a value of.
\* insertDefaults listing every non-collection column
RECURSIVE insertDefaultsEveryColumn(_, _, _, _)
insertDefaultsEveryColumn(model, k, entities, columnsToInsert) ==
  IF k > Len(model.columns)
  THEN [entities |-> entities, columnsToInsert |-> columnsToInsert, e |-> NoError]
  ELSE LET column == model.columns[k]
           defaulted == [i \in 1..Len(entities) |-> WithDefault(entities[i], column)]
           has == [i \in 1..Len(entities) |->
                     ~isUndefined(Get(defaulted[i], column.propertyName))]
       IN IF column.collection
          THEN insertDefaultsEveryColumn(model, k + 1, entities, columnsToInsert)
          ELSE IF column.required /\ \E i \in 1..Len(entities) : ~has[i]
          THEN [entities |-> defaulted, columnsToInsert |-> columnsToInsert,
                e |-> MissingRequiredFieldError]
          ELSE insertDefaultsEveryColumn(model, k + 1, defaulted,
                                         Append(columnsToInsert, column))

RECURSIVE insertDefaults(_, _, _, _)
insertDefaults(model, k, entities, columnsToInsert) ==
  IF k > Len(model.columns)
  THEN [entities |-> entities, columnsToInsert |-> columnsToInsert, e |-> NoError]
  ELSE LET column == model.columns[k]
           defaulted == [i \in 1..Len(entities) |-> WithDefault(entities[i], column)]
           has == [i \in 1..Len(entities) |->
                     ~isUndefined(Get(defaulted[i], column.propertyName))]
       IN IF column.collection
          THEN insertDefaults(model, k + 1, entities, columnsToInsert)
          ELSE IF column.required /\ \E i \in 1..Len(entities) : ~has[i]
          THEN [entities |-> defaulted, columnsToInsert |-> columnsToInsert,
                e |-> MissingRequiredFieldError]
          ELSE insertDefaults(model, k + 1, defaulted,
                              IF \E i \in 1..Len(entities) : has[i]
                              THEN Append(columnsToInsert, column)
                              ELSE columnsToInsert)

MissingPrimaryKeyColumnError == "MissingPrimaryKeyColumnError"

\* The value of one column of an INSERT row or of one SET item: the
\* literal NULL, or a placeholder of the value pushed.  nilKey says whether
\* a null primary key of a hydrated object counts as missing (INSERT) or
\* only an undefined one (UPDATE).
bindValue(column, value, params, nilKey) ==
  LET isJsonArray == column.type = "json" /\ isArray(value)
      relationName == LowerModelName(column.model)
      relationSchema == modelSchemasByGlobalId[relationName]
      primaryKeyValue == Get(value, getPrimaryKeyPropertyName(relationSchema))
      pushedValue == IF column.model # "" /\ isObject(value) THEN primaryKeyValue
                     ELSE IF isJsonArray THEN Stringified(value)
                     ELSE value
      pushed == Append(params, pushedValue)
  IN IF isNil(value) THEN Ok(<<Txt("NULL")>>, params)
     ELSE IF column.model # "" /\ isObject(value)
             /\ relationName \notin DOMAIN modelSchemasByGlobalId
     THEN Throw(UnknownRelatedModelError, params)
     ELSE IF column.model # "" /\ isObject(value) /\ nilKey
             /\ ~HasPrimaryKeyColumn(relationSchema)
     THEN Throw(MissingPrimaryKeyColumnError, params)
     ELSE IF column.model # "" /\ isObject(value)
             /\ (IF nilKey THEN isNil(primaryKeyValue) ELSE isUndefined(primaryKeyValue))
     THEN Throw(UndefinedValueError, params)
     ELSE Ok(<<Placeholder(Len(pushed), pushedValue)>>
               \o (IF isJsonArray THEN <<Txt("::jsonb")>> ELSE <<>>), pushed)

\* insertValues going through the cells row by row
RECURSIVE insertValuesRowMajor(_, _, _, _, _)
insertValuesRowMajor(columnsToInsert, entities, k, valueCollections, params) ==
  IF k >= Len(columnsToInsert) * Len(entities)
  THEN [valueCollections |-> valueCollections, p |-> params, e |-> NoError, column |-> 0]
  ELSE LET columnIndex == (k % Len(columnsToInsert)) + 1
           entityIndex == (k \div Len(columnsToInsert)) + 1
           column == columnsToInsert[columnIndex]
           r == bindValue(column, Get(entities[entityIndex], column.propertyName),
                          params, TRUE)
       IN IF r.e # NoError
          THEN [valueCollections |-> valueCollections, p |-> r.p, e |-> r.e,
                column |-> columnIndex]
          ELSE insertValuesRowMajor(columnsToInsert, entities, k + 1,
                                    [valueCollections EXCEPT ![entityIndex] = Append(@, r.q)],
                                    r.p)

\* The second loop of getInsertQueryAndParams from cell k on, the cells
\* numbered column by column: [valueCollections, p, e, column], column being
\* the index of the column the loop threw at.
RECURSIVE insertValues(_, _, _, _, _)
insertValues(columnsToInsert, entities, k, valueCollections, params) ==
  IF k >= Len(columnsToInsert) * Len(entities)
  THEN [valueCollections |-> valueCollections, p |-> params, e |-> NoError, column |-> 0]
  ELSE LET columnIndex == (k \div Len(entities)) + 1
           entityIndex == (k % Len(entities)) + 1
           column == columnsToInsert[columnIndex]
           r == bindValue(column, Get(entities[entityIndex], column.propertyName),
                          params, TRUE)
       IN IF r.e # NoError
          THEN [valueCollections |-> valueCollections, p |-> r.p, e |-> r.e,
                column |-> columnIndex]
          ELSE insertValues(columnsToInsert, entities, k + 1,
                            [valueCollections EXCEPT ![entityIndex] = Append(@, r.q)],
                            r.p)

\* a failure of INSERT; built is the query text as far as it had been built
InsertFailure(e, built, entities) ==
  [query |-> <<>>, params |-> <<>>, e |-> e, built |-> built, entities |-> entities]

\* getInsertQueryAndParams; values is one entity or an array of entities,
\* entities are the caller's objects after the call
getInsertQueryAndParams(model, values, returnRecords, returnSelect) ==
  LET entitiesToInsert == IF isArray(values) THEN values.a ELSE <<values>>
      d == insertDefaults(model, 1, entitiesToInsert, <<>>)
      v == insertValues(d.columnsToInsert, d.entities, 0,
                        [i \in 1..Len(entitiesToInsert) |-> <<>>], <<>>)
      insertInto == <<Txt("INSERT INTO "), Quoted(model.tableName), Txt(" (")>>
      names(n) == Join([i \in 1..n |-> <<Quoted(d.columnsToInsert[i].name)>>], ",")
      tuples == [i \in 1..Len(v.valueCollections) |->
                   <<Txt("(")>> \o Join(v.valueCollections[i], ",") \o <<Txt(")")>>]
      query == insertInto \o names(Len(d.columnsToInsert)) \o <<Txt(") VALUES ")>>
                 \o Join(tuples, ",")
      returning == Returning(model, returnRecords, returnSelect)
  IN IF d.e # NoError THEN InsertFailure(d.e, <<>>, d.entities)
     ELSE IF v.e # NoError THEN InsertFailure(v.e, insertInto \o names(v.column), d.entities)
     ELSE IF returning.e # NoError THEN InsertFailure(returning.e, query, d.entities)
     ELSE [query |-> query \o returning.q, params |-> v.p, e |-> NoError,
           built |-> query \o returning.q, entities |-> d.entities]

\* The SET loop of getUpdateQueryAndParams over entries[k..]: [items, p, e]
RECURSIVE updateItems(_, _, _, _, _)
updateItems(schema, entries, k, items, params) ==
  IF k > Len(entries) THEN [items |-> items, p |-> params, e |-> NoError]
  ELSE LET propertyName == entries[k].k
           property == Attribute(schema, propertyName)
           r == bindValue(property, entries[k].v, params, FALSE)
       IN IF ~HasColumn(schema, propertyName) \/ property.collection
          THEN updateItems(schema, entries, k + 1, items, params)
          ELSE IF r.e # NoError THEN [items |-> items, p |-> r.p, e |-> r.e]
          ELSE updateItems(schema, entries, k + 1,
                           Append(items, <<Quoted(property.name), Txt("=")>> \o r.q), r.p)

\* getUpdateQueryAndParams compiling the where against a params list of its
\* own
getUpdateQueryAndParamsFreshWhere(schema, where, values, returnRecords, returnSelect) ==
  LET stamped == IF schema.autoUpdatedAt /\ isUndefined(Get(values, "updatedAt"))
                 THEN Set(values, "updatedAt", DateValue)
                 ELSE values
      set == updateItems(schema, stamped.o, 1, <<>>, <<>>)
      w == buildWhereStatement(schema, where, <<>>)
      returning == Returning(schema, returnRecords, returnSelect)
      failure(e) == [query |-> <<>>, params |-> <<>>, e |-> e, values |-> stamped]
  IN IF set.e # NoError THEN failure(set.e)
     ELSE IF w.e # NoError THEN failure(w.e)
     ELSE IF returning.e # NoError THEN failure(returning.e)
     ELSE [query |-> <<Txt("UPDATE "), Quoted(schema.tableName), Txt(" SET ")>>
                       \o Join(set.items, ",") \o WhereClause(w) \o returning.q,
           params |-> set.p \o w.params, e |-> NoError, values |-> stamped]

\* getUpdateQueryAndParams; values are the caller's object after the call
getUpdateQueryAndParams(schema, where, values, returnRecords, returnSelect) ==
  LET stamped == IF schema.autoUpdatedAt /\ isUndefined(Get(values, "updatedAt"))
                 THEN Set(values, "updatedAt", DateValue)
                 ELSE values
      set == updateItems(schema, stamped.o, 1, <<>>, <<>>)
      w == buildWhereStatement(schema, where, set.p)
      returning == Returning(schema, returnRecords, returnSelect)
      failure(e) == [query |-> <<>>, params |-> <<>>, e |-> e, values |-> stamped]
  IN IF set.e # NoError THEN failure(set.e)
     ELSE IF w.e # NoError THEN failure(w.e)
     ELSE IF returning.e # NoError THEN failure(returning.e)
     ELSE [query |-> <<Txt("UPDATE "), Quoted(schema.tableName), Txt(" SET ")>>
                       \o Join(set.items, ",") \o WhereClause(w) \o returning.q,
           params |-> w.params, e |-> NoError, values |-> stamped]

\* the numbers that are not finite
NaN == [t |-> "NaN"]

Infinity == [t |-> "Infinity"]

\* lodash isFinite: a number that is neither NaN nor infinite
isFinite(v) == v.t = "number"

\* JavaScript truthiness
Truthy(v) ==
  CASE v.t \in {"undefined", "null", "NaN"} -> FALSE
    [] v.t = "number" -> v.n # 0
    [] v.t = "string" -> v.s # ""
    [] v.t = "boolean" -> v.b
    [] OTHER -> TRUE

\* Number(string), over the strings of the input domain
NumberOf(s) ==
  CASE s = "0" -> Num(0)
    [] s = "2" -> Num(2)
    [] s = "Infinity" -> Infinity
    [] OTHER -> NaN

\* the LIMIT / OFFSET clause of SELECT: [q, e]
limitClause(keyword, limit) ==
  LET number == IF isString(limit) THEN NumberOf(limit.s) ELSE limit
  IN IF ~Truthy(limit) THEN [q |-> <<>>, e |-> NoError]
     ELSE IF ~isFinite(number) THEN [q |-> <<>>, e |-> InvalidArgumentError]
     ELSE [q |-> <<Txt(" " \o keyword \o " " \o ToString(number.n))>>, e |-> NoError]

\* A sort statement given as a string, kept as what split(',') and then
\* split(' ') make of it: one sequence of words per comma-separated part.
SortString(parts) == [t |-> "string", parts |-> parts]

\* the string is ''
IsEmptySortString(sort) == sort.parts = << <<"">> >>

RECURSIVE Concat(_)
Concat(words) == IF words = <<>> THEN "" ELSE Head(words) \o Concat(Tail(words))

\* the strings of the input domain that /desc/i matches
DescendingWords == {"desc", "DESC", "descending"}

\* order && (order === -1 || order === '-1' || /desc/i.test(`${order}`))
IsDescending(order) ==
  /\ Truthy(order)
  /\ \/ order = Num(-1)
     \/ order = Str("-1")
     \/ order.t = "string" /\ order.s \in DescendingWords

OrderProperty(propertyName, order) == [propertyName |-> propertyName, order |-> order]

\* the orderProperties of one sort statement
orderPropertiesOf(sort) ==
  IF sort.t = "string"
  THEN LET named == SelectSeq(sort.parts, LAMBDA words : Head(words) # "")
       IN [i \in 1..Len(named) |->
             OrderProperty(Head(named[i]), Str(Concat(Tail(named[i]))))]
  ELSE IF sort.t = "object"
  THEN [i \in 1..Len(sort.o) |-> OrderProperty(sort.o[i].k, sort.o[i].v)]
  ELSE <<>>

RECURSIVE orderProperties(_)
orderProperties(sorts) ==
  IF sorts = <<>> THEN <<>>
  ELSE orderPropertiesOf(Head(sorts)) \o orderProperties(Tail(sorts))

\* _buildOrderStatement: [q, e]; sorts is undefined, null or an array
buildOrderStatement(schema, sorts) ==
  LET some == \E i \in 1..Len(sorts.a) :
                IF sorts.a[i].t = "string" THEN ~IsEmptySortString(sorts.a[i])
                ELSE Truthy(sorts.a[i])
      properties == orderProperties(sorts.a)
      item(i) == <<Quoted(getColumnName(schema, properties[i].propertyName).name)>>
                   \o (IF IsDescending(properties[i].order) THEN <<Txt(" DESC")>> ELSE <<>>)
  IN IF isNil(sorts) \/ ~some THEN [q |-> <<>>, e |-> NoError]
     ELSE IF \E i \in 1..Len(properties) :
                getColumnName(schema, properties[i].propertyName).e # NoError
     THEN [q |-> <<>>,
           e |-> getColumnName(schema,
                   properties[CHOOSE i \in 1..Len(properties) :
                     /\ getColumnName(schema, properties[i].propertyName).e # NoError
                     /\ \A j \in 1..(i - 1) :
                          getColumnName(schema, properties[j].propertyName).e = NoError
                   ].propertyName).e]
     ELSE [q |-> <<Txt("ORDER BY ")>> \o Join([i \in 1..Len(properties) |-> item(i)], ","),
           e |-> NoError]

getSelectQueryAndParams(model, select, where, sorts, skip, limit) ==
  LET columns == getColumnsToSelect(model, select)
      w == buildWhereStatement(model, where, <<>>)
      order == buildOrderStatement(model, sorts)
      limitSql == limitClause("LIMIT", limit)
      offsetSql == limitClause("OFFSET", skip)
  IN IF columns.e # NoError THEN Failure(columns.e)
     ELSE IF w.e # NoError THEN Failure(w.e)
     ELSE IF order.e # NoError THEN Failure(order.e)
     ELSE IF limitSql.e # NoError THEN Failure(limitSql.e)
     ELSE IF offsetSql.e # NoError THEN Failure(offsetSql.e)
     ELSE Statement(<<Txt("SELECT ")>> \o columns.q
                      \o <<Txt(" FROM "), Quoted(model.tableName)>>
                      \o WhereClause(w)
                      \o (IF order.q # <<>> THEN <<Txt(" ")>> \o order.q ELSE <<>>)
                      \o limitSql.q \o offsetSql.q,
                    w.params)

(***************************************************************************)
(* The arguments the calls are drawn from                                  *)
(***************************************************************************)

\* longest array used as a where value
MaxArrayLen == 3

\* how deep not / or / nested objects are stacked over the atoms
MaxDepth == 2

\* most rows of one INSERT
MaxRows == 2

\* longest select / returnSelect list
MaxSelectLen == 2

SeqsUpTo(S, n) == UNION {[1..k -> S] : k \in 0..n}

Scalars ==
  {Str("abc"), Str("Foo"), Str(""), Num(5), Bool(TRUE), Null, Undefined, DateValue}

ArrayElements == {Null, Str("a"), Num(1)}

Arrays ==
  {Arr(a) : a \in SeqsUpTo(ArrayElements, MaxArrayLen)}
    \cup {Arr(<<Str("Foo"), Str("b")>>), Arr(<<Str("Foo")>>), Arr(<<Undefined>>)}

\* a store with its primary key, one without, one whose key is null, one
\* whose key is a string
StoreObjects ==
  {Obj(<<Entry("id", Num(7)), Entry("name", Str("s"))>>),
   Obj(<<Entry("name", Str("s"))>>),
   Obj(<<Entry("id", Null)>>),
   Obj(<<Entry("id", Str("abc"))>>)}

LeafValues == Scalars \cup Arrays \cup StoreObjects

\* the properties where trees name; bogus is not a property of the model
WhereProperties == {"name", "id", "aliases", "tags", "meta", "store", "bogus"}

PropertyComparers ==
  {"!", "not", "contains", "startsWith", "endsWith", "like", "<", "<=", ">", ">="}

Object1(k, v) == Obj(<<Entry(k, v)>>)

Object2(k1, v1, k2, v2) == Obj(<<Entry(k1, v1), Entry(k2, v2)>>)

\* what a property key is given: a value, or comparers over a value
Constraints ==
  LeafValues
    \cup {Object1(c, v) : c \in PropertyComparers, v \in LeafValues}
    \cup {Object1(n, Object1(c, v)) :
            n \in {"!", "not"}, c \in PropertyComparers, v \in Scalars \cup {Arr(<<>>)}}
    \cup {Object1(c, Object1(n, v)) :
            n \in {"!"}, c \in PropertyComparers, v \in {Str("abc"), Num(5), Null}}
    \cup {Object2(">=", Num(1), "<", v) : v \in {Num(5), Arr(<<>>)}}

\* where trees of one property
Leaves ==
  {Object1(p, c) : p \in WhereProperties, c \in Constraints}
    \cup {Object1(p, v) :
            p \in {"price", "isActive", "counts", "ratios", "flags", "sku"},
            v \in {Num(1), Arr(<<>>), Arr(<<Num(1), Num(2)>>), Arr(<<Null, Num(1), Num(2)>>)}}

\* the sub-expressions and / or / not are stacked over
Atoms ==
  {Object1("name", Str("abc")),
   Object1("id", Object1("<", Num(5))),
   Object1("sku", Null),
   Object1("sku", Arr(<<Str("a"), Str("b")>>)),
   Object1("name", Object1("contains", Str("abc"))),
   Obj(<<>>)}

Keys(object) == {object.o[i].k : i \in 1..Len(object.o)}

\* the atoms a deeper tree is paired with
PairAtoms ==
  {Object1("name", Str("abc")), Object1("sku", Arr(<<Str("a"), Str("b")>>))}

RECURSIVE Trees(_)
Trees(depth) ==
  IF depth = 0 THEN Atoms
  ELSE LET below == Trees(depth - 1)
       IN below
            \cup {Object1(n, e) : n \in {"not", "!"}, e \in below}
            \cup {Object1("or", Arr(<<e>>)) : e \in below}
            \cup {Object1("or", Arr(<<a, e>>)) : a \in PairAtoms, e \in below}
            \cup {Object1("or", Arr(<<e, a>>)) : a \in PairAtoms, e \in below}
            \cup {Obj(a.o \o e.o) :
                    a \in PairAtoms,
                    e \in {x \in below : x.o # <<>> /\ Keys(x) \cap {"name", "id", "sku"} = {}}}
            \cup {Object2("not", a, "!", e) : a \in PairAtoms, e \in below}

\* other shapes: an empty or, an or of a non-array, a comparer key after a
\* sibling property key, an empty object under a property key, the where
\* argument left out or not an object
OddWheres ==
  {Object1("or", Arr(<<>>)), Object1("or", Str("")), Object1("or", Str("abc")),
   Object1("or", Null), Object1("not", Object1("or", Arr(<<>>))),
   Object1("not", Object1("tags", Arr(<<>>))), Object1("!", Object1("name", Arr(<<>>))),
   Object1("not", Object1("name", Object1("contains", Str("abc")))),
   Object2("name", Str("abc"), "<", Num(5)),
   Object2("id", Num(5), "contains", Str("abc")),
   Object2("<", Num(5), "id", Num(1)),
   Object1("name", Obj(<<>>)), Object2("name", Obj(<<>>), "id", Num(5)),
   Object1("and", Arr(<<Object1("name", Str("abc")), Object1("id", Num(5))>>)),
   Object1("and", Object1("name", Str("abc"))),
   Undefined, Null, Str("abc"), Arr(<<>>)}

Wheres == Leaves \cup Trees(MaxDepth) \cup OddWheres

\* the where arguments of the statement builders
StatementWheres ==
  {Undefined, Obj(<<>>), Object1("id", Num(5)),
   Object1("id", Arr(<<Num(1), Num(2)>>)),
   Object2("id", Arr(<<Num(1), Num(2)>>), "store",
           Obj(<<Entry("id", Num(7)), Entry("name", Str("s"))>>)),
   Object1("name", Object1("contains", Str("abc"))),
   Object1("or", Arr(<<Object1("name", Null), Object1("sku", Str("abc"))>>)),
   Object1("bogus", Num(5)), Object1("name", Undefined)}

Models == {Product, ProductWithCreateUpdateDateTracking, Store, Legacy, Log}

\* the model of a call, by its name
ModelNamed(name) == CHOOSE model \in Models : model.name = name

SelectProperties(model) ==
  {model.columns[i].propertyName : i \in 1..Len(model.columns)} \cup {"bogus"}

Selects(model) ==
  {NoSelect} \cup {SelectList(l) : l \in SeqsUpTo(SelectProperties(model), MaxSelectLen)}

\* the returnSelect lists of INSERT, UPDATE and DELETE
ReturnSelects ==
  {NoSelect, SelectList(<<>>), SelectList(<<"name">>), SelectList(<<"id", "name">>)}

\* most keys of the values of one UPDATE
MaxValues == 2

\* the where arguments of SELECT
SelectWheres ==
  {Undefined, Obj(<<>>), Object1("id", Num(5)), Object1("bogus", Num(5))}

Sorts ==
  {Undefined, Arr(<<>>),
   Arr(<<SortString(<< <<"name", "desc">>, <<"sku">> >>)>>),
   Arr(<<SortString(<< <<"">> >>)>>),
   Arr(<<Object1("name", Num(-1)), Object1("store", Str("asc"))>>),
   Arr(<<Object1("bogus", Num(1))>>)}

Limits ==
  {Undefined, Num(0), Num(2), Str("2"), Str("0"), Str("abc"), NaN, Infinity, Bool(TRUE)}

\* the values one property of an entity to insert is given; Undefined is
\* the property left out
EntityValues(propertyName) ==
  CASE propertyName = "name" -> {Undefined, Str("n1"), Null}
    [] propertyName = "store" ->
         {Undefined, Num(3), Obj(<<Entry("id", Num(7)), Entry("name", Str("s"))>>),
          Obj(<<Entry("name", Str("s"))>>)}

Given(propertyName, v) == IF isUndefined(v) THEN <<>> ELSE <<Entry(propertyName, v)>>

Entities ==
  {Obj(Given("name", n) \o Given("store", st)) :
     n \in EntityValues("name"), st \in EntityValues("store")}
    \cup {Obj(<<Entry("name", Str("n1")), Entry("sku", Str("k1")),
                Entry("meta", Arr(<<Num(1)>>))>>),
          Obj(<<Entry("name", Undefined), Entry("serial", Str("s9"))>>),
          Obj(<<Entry("categories", Arr(<<>>)), Entry("name", Str("n1")),
                Entry("createdAt", Null)>>)}

\* the entities of the longer batches: the store left out or given by its key
RowEntities == {e \in Entities : ~isObject(Get(e, "store"))}

\* one entity, a batch of up to two of any entities, or a longer batch
InsertValues ==
  Entities
    \cup {Arr(a) : a \in SeqsUpTo(Entities, IF MaxRows < 2 THEN MaxRows ELSE 2)}
    \cup {Arr(a) : a \in SeqsUpTo(RowEntities, MaxRows)}

\* returnRecords and returnSelect as the callers pass them
ReturnOptions ==
  {<<Bool(TRUE), NoSelect>>, <<Bool(FALSE), NoSelect>>, <<Undefined, NoSelect>>,
   <<Bool(TRUE), SelectList(<<"name">>)>>, <<Bool(TRUE), SelectList(<<>>)>>,
   <<Bool(FALSE), SelectList(<<"id", "name">>)>>}

\* the same for INSERT and UPDATE
WriteOptions ==
  {<<Bool(TRUE), NoSelect>>, <<Bool(FALSE), NoSelect>>, <<Undefined, NoSelect>>,
   <<Bool(TRUE), SelectList(<<"name">>)>>, <<Bool(FALSE), SelectList(<<"name">>)>>}

\* the returnRecords parameter of a builder: true when the caller leaves it out
returnRecordsOf(argument) == IF isUndefined(argument) THEN TRUE ELSE argument.b

\* the where arguments of UPDATE
UpdateWheres ==
  {Undefined, Object1("id", Num(5)),
   Object2("id", Arr(<<Num(1), Num(2)>>), "store",
           Obj(<<Entry("id", Num(7)), Entry("name", Str("s"))>>)),
   Object1("bogus", Num(5))}

UpdateEntries ==
  {Entry("name", Str("n1")), Entry("name", Undefined), Entry("sku", Null),
   Entry("store", Num(3)),
   Entry("store", Obj(<<Entry("id", Num(7)), Entry("name", Str("s"))>>)),
   Entry("store", Obj(<<Entry("name", Str("s"))>>)),
   Entry("meta", Arr(<<Num(1)>>)), Entry("categories", Arr(<<>>)),
   Entry("bogus", Num(1)), Entry("updatedAt", Str("t1"))}

UpdateValues ==
  {Obj(o) : o \in {x \in SeqsUpTo(UpdateEntries, MaxValues) :
                     \A i, j \in 1..Len(x) : x[i].k = x[j].k => i = j}}

(***************************************************************************)
(* The state machine: one call at a time                                   *)
(***************************************************************************)

Idle == [op |-> "idle"]

Init ==
  /\ call = Idle
  /\ result = Idle

BuildWhereStatement ==
  /\ call = Idle
  /\ \E where \in Wheres :
       /\ call' = [op |-> "_buildWhereStatement", schema |-> Product.name, where |-> where]
       /\ result' = buildWhereStatement(Product, where, <<>>)

GetColumnsToSelect ==
  /\ call = Idle
  /\ \E model \in Models \ {ProductWithCreateUpdateDateTracking} :
       \E select \in Selects(model) :
         /\ call' = [op |-> "_getColumnsToSelect", model |-> model.name, select |-> select]
         /\ result' = getColumnsToSelect(model, select)

GetSelectQueryAndParams ==
  /\ call = Idle
  /\ \E select \in {NoSelect, SelectList(<<"name">>)}, where \in SelectWheres,
        sorts \in Sorts, skip \in Limits, limit \in Limits :
       /\ call' = [op |-> "getSelectQueryAndParams", model |-> Product.name,
                   select |-> select, where |-> where, sorts |-> sorts,
                   skip |-> skip, limit |-> limit]
       /\ result' = getSelectQueryAndParams(Product, select, where, sorts, skip, limit)

GetCountQueryAndParams ==
  /\ call = Idle
  /\ \E where \in StatementWheres :
       /\ call' = [op |-> "getCountQueryAndParams", model |-> Product.name, where |-> where]
       /\ result' = getCountQueryAndParams(Product, where)

GetInsertQueryAndParams ==
  /\ call = Idle
  /\ \E values \in InsertValues, options \in WriteOptions :
       /\ call' = [op |-> "getInsertQueryAndParams", model |-> Product.name,
                   values |-> values, given |-> options[1],
                   returnRecords |-> returnRecordsOf(options[1]),
                   returnSelect |-> options[2]]
       /\ result' = getInsertQueryAndParams(Product, values, returnRecordsOf(options[1]),
                                            options[2])

GetUpdateQueryAndParams ==
  /\ call = Idle
  /\ \E schema \in {Product, ProductWithCreateUpdateDateTracking},
        where \in UpdateWheres, values \in UpdateValues, options \in WriteOptions :
       /\ call' = [op |-> "getUpdateQueryAndParams", schema |-> schema.name,
                   where |-> where, values |-> values, given |-> options[1],
                   returnRecords |-> returnRecordsOf(options[1]),
                   returnSelect |-> options[2]]
       /\ result' = getUpdateQueryAndParams(schema, where, values,
                                            returnRecordsOf(options[1]), options[2])

GetDeleteQueryAndParams ==
  /\ call = Idle
  /\ \E where \in StatementWheres, options \in ReturnOptions :
       /\ call' = [op |-> "getDeleteQueryAndParams", schema |-> Product.name,
                   where |-> where, given |-> options[1],
                   returnRecords |-> returnRecordsOf(options[1]),
                   returnSelect |-> options[2]]
       /\ result' = getDeleteQueryAndParams(Product, where, returnRecordsOf(options[1]),
                                            options[2])

\* the call is over; nothing of it is kept
Return ==
  /\ call # Idle
  /\ call' = Idle
  /\ result' = Idle

Next ==
  \/ BuildWhereStatement
  \/ GetColumnsToSelect
  \/ GetSelectQueryAndParams
  \/ GetCountQueryAndParams
  \/ GetInsertQueryAndParams
  \/ GetUpdateQueryAndParams
  \/ GetDeleteQueryAndParams
  \/ Return

Spec == Init /\ [][Next]_vars

\* the calls of one builder only
NextWhere == BuildWhereStatement \/ Return

SpecWhere == Init /\ [][NextWhere]_vars

NextColumns == GetColumnsToSelect \/ Return

SpecColumns == Init /\ [][NextColumns]_vars

NextRead ==
  \/ GetSelectQueryAndParams
  \/ GetCountQueryAndParams
  \/ GetDeleteQueryAndParams
  \/ Return

SpecRead == Init /\ [][NextRead]_vars

NextInsert == GetInsertQueryAndParams \/ Return

SpecInsert == Init /\ [][NextInsert]_vars

NextUpdate == GetUpdateQueryAndParams \/ Return

SpecUpdate == Init /\ [][NextUpdate]_vars

\* the calls of the builders that end with RETURNING
NextWrite ==
  \/ GetInsertQueryAndParams
  \/ GetUpdateQueryAndParams
  \/ GetDeleteQueryAndParams
  \/ Return

SpecWrite == Init /\ [][NextWrite]_vars

(***************************************************************************)
(* Properties                                                              *)
(***************************************************************************)

\* a where tree was compiled with a fresh params list, and compiled
WhereCompiled ==
  /\ call.op = "_buildWhereStatement"
  /\ result.e = NoError

Count(list, x) == Cardinality({i \in 1..Len(list) : list[i] = x})

\* C1: in a compiled where fragment there are as many placeholders as
\* params, every index 1..len(params) is the index of exactly one
\* placeholder, and the placeholder $k stands where params[k] was pushed.
PlaceholdersMatchParams ==
  WhereCompiled =>
    LET q == result.whereStatement
        indices == PlaceholderIndices(q)
    IN /\ Len(indices) = Len(result.params)
       /\ \A k \in 1..Len(result.params) : Count(indices, k) = 1
       /\ \A i \in 1..Len(q) :
            IsPlaceholder(q[i]) =>
              /\ q[i].n \in 1..Len(result.params)
              /\ result.params[q[i].n] = q[i].v

\* a fragment with an array parameter and two scalar ones
PlaceholdersMatchParamsWitness ==
  /\ WhereCompiled
  /\ Len(result.params) >= 3
  /\ \E k \in 1..Len(result.params) : isArray(result.params[k])

\* C2: the placeholder indices of a compiled where fragment, read left to
\* right, are 1, 2, ..., len(params).
PlaceholdersIncrease ==
  WhereCompiled =>
    PlaceholderIndices(result.whereStatement) = [k \in 1..Len(result.params) |-> k]

\* an or whose second clause is an or again, three params
PlaceholdersIncreaseWitness ==
  /\ WhereCompiled
  /\ Len(result.params) >= 3
  /\ isObject(call.where)
  /\ Keys(call.where) = {"or"}
  /\ Len(call.where.o[1].v.a) = 2
  /\ Keys(call.where.o[1].v.a[2]) = {"or"}

HasWhereToken(query) == \E i \in 1..Len(query) : query[i] = Txt("WHERE ")

\* C3: with the where argument left out or an empty object, SELECT, COUNT
\* and DELETE have no WHERE clause and no params, and DELETE is exactly
\* DELETE FROM "<table>" followed by its RETURNING clause, if any.
NoWhereWithoutConstraints ==
  /\ call.op \in {"getSelectQueryAndParams", "getCountQueryAndParams",
                  "getDeleteQueryAndParams"}
  /\ call.where \in {Undefined, Obj(<<>>)}
  /\ result.e = NoError
  => /\ ~HasWhereToken(result.query)
     /\ result.params = <<>>
     /\ call.op = "getCountQueryAndParams" =>
          Render(result.query) = "SELECT count(*) AS \"count\" FROM \"products\""
     /\ call.op = "getDeleteQueryAndParams" /\ ~call.returnRecords =>
          Render(result.query) = "DELETE FROM \"products\""
     /\ call.op = "getDeleteQueryAndParams" /\ call.returnRecords /\ ~call.returnSelect.given =>
          Render(result.query) =
            "DELETE FROM \"products\" RETURNING \"id\",\"name\",\"sku\","
              \o "\"alias_names\" AS \"aliases\",\"store_id\" AS \"store\","
              \o "\"tags\",\"meta\",\"price\",\"is_active\" AS \"isActive\","
              \o "\"counts\",\"ratios\",\"flags\",\"serial\",\"created_at\" AS \"createdAt\","
              \o "\"updated_at\" AS \"updatedAt\""

\* destroy({}) without returned records
NoWhereWithoutConstraintsWitness ==
  /\ call.op = "getDeleteQueryAndParams"
  /\ call.where = Obj(<<>>)
  /\ ~call.returnRecords
  /\ result.e = NoError
  /\ result.query # <<>>

\* the first position of a token in a text
IndexOf(q, tok) ==
  CHOOSE i \in 1..Len(q) : q[i] = tok /\ \A j \in 1..(i - 1) : q[j] # tok

Has(q, tok) == \E i \in 1..Len(q) : q[i] = tok

\* the pieces of a text between the occurrences of a separator
RECURSIVE Split(_, _)
Split(q, sep) ==
  IF q = <<>> THEN <<>>
  ELSE IF Has(q, sep)
  THEN <<SubSeq(q, 1, IndexOf(q, sep) - 1)>>
         \o Split(SubSeq(q, IndexOf(q, sep) + 1, Len(q)), sep)
  ELSE <<q>>

\* a column list was compiled
ColumnsCompiled ==
  /\ call.op = "_getColumnsToSelect"
  /\ result.e = NoError

\* the column list, item by item, that stands for a list of properties
ColumnsOf(model, properties) ==
  [i \in 1..Len(properties) |-> ColumnSql(model, properties[i])]

\* the properties of the non-collection columns, in declaration order
PlainProperties(model) ==
  LET plain == SelectSeq(model.columns, LAMBDA column : ~column.collection)
  IN [i \in 1..Len(plain) |-> plain[i].propertyName]

\* C4 as stated: for a model with a primary key and every explicit list, the
\* compiled column list has the primary key exactly once, last when the
\* list omits it; with select left out it is all non-collection columns.
PrimaryKeyExactlyOnce ==
  ColumnsCompiled =>
    LET model == ModelNamed(call.model)
        items == Split(result.q, Txt(","))
        pk == primaryKeyColumn(model).propertyName
    IN /\ call.select.given /\ HasPrimaryKeyColumn(model) =>
            /\ Count(items, ColumnSql(model, pk)) = 1
            /\ ~Contains(call.select.list, pk) =>
                 items = ColumnsOf(model, Append(call.select.list, pk))
       /\ ~call.select.given => items = ColumnsOf(model, PlainProperties(model))

\* C4: for a model with a primary key and an explicit list of its
\* properties, the compiled column list is the list as given, repetitions
\* included, followed by the primary key when the list omits it; so the
\* primary key stands exactly once when the list names it at most once, and
\* as often as the list names it otherwise.  With select left out the list
\* is all non-collection columns in declaration order.
PrimaryKeyAppendedWhenMissing ==
  ColumnsCompiled =>
    LET model == ModelNamed(call.model)
        items == Split(result.q, Txt(","))
        pk == primaryKeyColumn(model).propertyName
        list == call.select.list
    IN /\ call.select.given /\ HasPrimaryKeyColumn(model) =>
            /\ ~Contains(list, pk) => items = ColumnsOf(model, Append(list, pk))
            /\ Contains(list, pk) => items = ColumnsOf(model, list)
            /\ Count(list, pk) <= 1 => Count(items, ColumnSql(model, pk)) = 1
            /\ Count(list, pk) > 1 =>
                 Count(items, ColumnSql(model, pk)) = Count(list, pk)
       /\ ~call.select.given => items = ColumnsOf(model, PlainProperties(model))

\* a list of one property that is not the primary key, of a model whose
\* primary key is not its first column
PrimaryKeyAppendedWhenMissingWitness ==
  /\ ColumnsCompiled
  /\ call.model = "Legacy"
  /\ call.select = SelectList(<<"title">>)
  /\ Render(result.q) = "\"title\",\"legacy_code\" AS \"code\""

\* an INSERT statement was built
InsertBuilt ==
  /\ call.op = "getInsertQueryAndParams"
  /\ result.e = NoError

\* the rows of an INSERT call
RowsOf(values) == IF isArray(values) THEN values.a ELSE <<values>>

\* the names between INSERT INTO "t" ( and ) VALUES
InsertColumns(q) ==
  Split(SubSeq(q, 4, IndexOf(q, Txt(") VALUES ")) - 1), Txt(","))

\* the text between VALUES and RETURNING
ValuesPart(q) ==
  SubSeq(q, IndexOf(q, Txt(") VALUES ")) + 1,
         IF Has(q, Txt(" RETURNING ")) THEN IndexOf(q, Txt(" RETURNING ")) - 1
         ELSE Len(q))

\* the tuples of a VALUES list, each the sequence of its cells
RECURSIVE Tuples(_)
Tuples(v) ==
  IF v = <<>> THEN <<>>
  ELSE LET open == IF Head(v) = Txt(",") THEN 2 ELSE 1
           close == IndexOf(v, Txt(")"))
       IN <<Split(SubSeq(v, open + 1, close - 1), Txt(","))>>
            \o Tuples(SubSeq(v, close + 1, Len(v)))

\* the column of a model by its quoted column name
ColumnQuoted(model, tok) ==
  model.columns[CHOOSE i \in 1..Len(model.columns) : Quoted(model.columns[i].name) = tok]

\* what is bound for a value of a column: the primary key of a related
\* object, the JSON text of an array for a json column, the value itself
BoundValue(column, value) ==
  IF column.model # "" /\ isObject(value) THEN Get(value, "id")
  ELSE IF column.type = "json" /\ isArray(value) THEN Stringified(value)
  ELSE value

\* C5: in an INSERT the cells are numbered column by column: the bound
\* cell of row r and column c has the index one more than the number of
\* bound cells of earlier columns and of earlier rows of its column; with n
\* rows and no NULL cell it is $(c*n + r + 1), and params holds the value of
\* row r for column c at that index.
ColumnMajorNumbering ==
  InsertBuilt =>
    LET rows == Tuples(ValuesPart(result.query))
        n == Len(rows)
        columns == InsertColumns(result.query)
        m == Len(columns)
        cells == (0..(n - 1)) \X (0..(m - 1))
        cell(x) == rows[x[1] + 1][x[2] + 1]
        bound == {x \in cells : cell(x) # <<Txt("NULL")>>}
        before(x) ==
          Cardinality({y \in bound : y[2] < x[2] \/ (y[2] = x[2] /\ y[1] < x[1])})
        valueOf(x) ==
          LET column == ColumnQuoted(Product, columns[x[2] + 1][1])
          IN BoundValue(column, Get(result.entities[x[1] + 1], column.propertyName))
    IN /\ n = Len(RowsOf(call.values))
       /\ \A r \in 1..n : Len(rows[r]) = m
       /\ Len(result.params) = Cardinality(bound)
       /\ \A x \in bound :
            /\ IsPlaceholder(cell(x)[1])
            /\ cell(x)[1].n = before(x) + 1
       /\ bound = cells =>
            \A x \in cells :
              /\ cell(x)[1].n = x[2] * n + x[1] + 1
              /\ result.params[x[2] * n + x[1] + 1] = valueOf(x)

\* two rows and three columns or more, no NULL among the cells
ColumnMajorNumberingWitness ==
  /\ InsertBuilt
  /\ Len(RowsOf(call.values)) = 2
  /\ Len(InsertColumns(result.query)) >= 3
  /\ ~Has(result.query, Txt("NULL"))
  /\ Len(result.params) = 2 * Len(InsertColumns(result.query))

\* an UPDATE statement was built
UpdateBuilt ==
  /\ call.op = "getUpdateQueryAndParams"
  /\ result.e = NoError

\* the SET items: what stands between SET and the WHERE or RETURNING clause
SetPart(q) ==
  LET ends == {i \in 1..Len(q) : q[i] \in {Txt(" "), Txt(" RETURNING ")}}
  IN SubSeq(q, 4, IF ends = {} THEN Len(q)
                  ELSE (CHOOSE i \in ends : \A j \in ends : i <= j) - 1)

\* C6: in an UPDATE the SET items stand in the order of the keys of values
\* and bind their values first, as $1..$k; the where clause is compiled
\* against the same params list, so params is the SET values followed by
\* the params of the where, and the placeholders of the statement read
\* left to right are 1..len(params).
SetThenWhereParams ==
  UpdateBuilt =>
    LET schema == ModelNamed(call.schema)
        setPart == SetPart(result.query)
        items == Split(setPart, Txt(","))
        entries == SelectSeq(result.values.o,
                             LAMBDA entry : /\ HasColumn(schema, entry.k)
                                            /\ ~Attribute(schema, entry.k).collection)
        bound == SelectSeq(entries, LAMBDA entry : ~isNil(entry.v))
        k == Len(bound)
        where == buildWhereStatement(schema, call.where, <<>>)
    IN /\ Len(items) = Len(entries)
       /\ \A i \in 1..Len(items) :
            items[i][1] = Quoted(Attribute(schema, entries[i].k).name)
       /\ PlaceholderIndices(setPart) = [i \in 1..k |-> i]
       /\ Len(result.params) = k + Len(where.params)
       /\ \A i \in 1..k :
            result.params[i] = BoundValue(Attribute(schema, bound[i].k), bound[i].v)
       /\ \A i \in 1..Len(where.params) : result.params[k + i] = where.params[i]
       /\ PlaceholderIndices(result.query) = [i \in 1..Len(result.params) |-> i]

\* two SET values and a where clause that binds a value
SetThenWhereParamsWitness ==
  /\ UpdateBuilt
  /\ Len(PlaceholderIndices(SetPart(result.query))) = 2
  /\ Len(result.params) >= 3
  /\ HasWhereToken(result.query)

\* a column that has a default: defaultsTo, or a create / update date
HasDefault(column) ==
  column.defaultsTo.kind # "none" \/ column.createDate \/ column.updateDate

\* some required non-collection column without a default has no value on
\* some row
MissingRequired(model, rows) ==
  \E i \in 1..Len(model.columns), r \in 1..Len(rows) :
    /\ model.columns[i].required
    /\ ~model.columns[i].collection
    /\ ~HasDefault(model.columns[i])
    /\ isUndefined(Get(rows[r], model.columns[i].propertyName))

\* C7: INSERT fails with MissingRequiredFieldError, with nothing of the
\* query built and no statement returned, when some required non-collection
\* column without a default has no value on at least one row; it does not
\* fail so when every such column has a value on every row, whatever the
\* required columns with a default are given.
RequiredFieldsValidated ==
  call.op = "getInsertQueryAndParams" =>
    IF MissingRequired(Product, RowsOf(call.values))
    THEN /\ result.e = MissingRequiredFieldError
         /\ result.built = <<>>
         /\ result.query = <<>>
         /\ result.params = <<>>
    ELSE result.e # MissingRequiredFieldError

\* two rows, the first with a name and the second without
RequiredFieldsValidatedWitness ==
  /\ call.op = "getInsertQueryAndParams"
  /\ isArray(call.values)
  /\ Len(call.values.a) = 2
  /\ ~isNil(Get(call.values.a[1], "name"))
  /\ isUndefined(Get(call.values.a[2], "name"))
  /\ result.e = MissingRequiredFieldError

\* the where trees not({or: [A, B]}) and !({or: [A, B]})
IsNegatedOr(where) ==
  /\ isObject(where)
  /\ ~isArray(where)
  /\ ~isDate(where)
  /\ Len(where.o) = 1
  /\ where.o[1].k \in {"not", "!"}
  /\ isObject(where.o[1].v)
  /\ ~isArray(where.o[1].v)
  /\ ~isDate(where.o[1].v)
  /\ Len(where.o[1].v.o) = 1
  /\ where.o[1].v.o[1].k = "or"
  /\ isArray(where.o[1].v.o[1].v)
  /\ Len(where.o[1].v.o[1].v.a) = 2

\* the sub-expressions A and B of such a tree
Disjuncts(where) == where.o[1].v.o[1].v.a

\* a where statement without its WHERE
Fragment(whereStatement) ==
  IF whereStatement = <<>> THEN <<>> ELSE Tail(whereStatement)

\* C8 as stated: not({or: [A, B]}) compiles to the same fragment and params
\* as the AND of not(A) and not(B), written as the where tree
\* {not: A, '!': B} or as the where tree {and: [{not: A}, {not: B}]}.
DeMorganIdentical ==
  call.op = "_buildWhereStatement" /\ IsNegatedOr(call.where) =>
    LET A == Disjuncts(call.where)[1]
        B == Disjuncts(call.where)[2]
    IN \/ result = buildWhereStatement(Product, Object2("not", A, "!", B), <<>>)
       \/ result = buildWhereStatement(
                     Product,
                     Object1("and", Arr(<<Object1("not", A), Object1("not", B)>>)),
                     <<>>)

\* C8: not({or: [A, B]}) compiles to (a) AND (b), a and b being the
\* fragments of not(A) and of not(B), B compiled against the params A left;
\* the params are those of not(A) followed by those of not(B), and the
\* compilation fails as the first of the two that fails.
DeMorganParenthesised ==
  call.op = "_buildWhereStatement" /\ IsNegatedOr(call.where) =>
    LET A == Disjuncts(call.where)[1]
        B == Disjuncts(call.where)[2]
        a == buildWhereStatement(Product, Object1("not", A), <<>>)
        b == buildWhereStatement(Product, Object1("not", B), a.params)
    IN IF a.e # NoError THEN result.e = a.e
       ELSE IF b.e # NoError THEN result.e = b.e
       ELSE /\ result.e = NoError
            /\ result.params = b.params
            /\ result.whereStatement =
                 <<Txt("WHERE "), Txt("(")>> \o Fragment(a.whereStatement)
                   \o <<Txt(")"), Txt(" AND "), Txt("(")>>
                   \o Fragment(b.whereStatement) \o <<Txt(")")>>

\* not({or: [{name: 'abc'}, {sku: ['a', 'b']}]})
DeMorganParenthesisedWitness ==
  /\ call.op = "_buildWhereStatement"
  /\ call.where = Object1("not", Object1("or", Arr(<<Object1("name", Str("abc")),
                                                     Object1("sku", Arr(<<Str("a"), Str("b")>>))>>)))
  /\ Render(result.whereStatement)
       = "WHERE (\"name\"<>$1) AND (\"sku\"<>ALL($2::TEXT[]))"
  /\ result.params = <<Str("abc"), Arr(<<Str("a"), Str("b")>>)>>

\* the properties of the model
Properties(model) == {model.columns[i].propertyName : i \in 1..Len(model.columns)}

\* the result of a where that compiled to the given text and params
CompilesTo(text, params) ==
  /\ result.e = NoError
  /\ Render(result.whereStatement) = "WHERE " \o text
  /\ result.params = params

\* C9: an empty array as the value of a property binds nothing and
\* compiles to "col"='{}' on a column of an array type and to 1<>1 on any
\* other column; under a negation to "col"<>'{}' and to 1=1.
EmptyArrayCompiles ==
  call.op = "_buildWhereStatement" =>
    \A p \in Properties(Product) :
      LET column == Attribute(Product, p)
          isArrayType ==
            column.type \in {"array", "string[]", "integer[]", "float[]", "boolean[]"}
          quoted == "\"" \o column.name \o "\""
      IN /\ call.where = Object1(p, Arr(<<>>)) =>
              CompilesTo(IF isArrayType THEN quoted \o "='{}'" ELSE "1<>1", <<>>)
         /\ call.where \in {Object1(p, Object1("!", Arr(<<>>))),
                            Object1(p, Object1("not", Arr(<<>>))),
                            Object1("!", Object1(p, Arr(<<>>))),
                            Object1("not", Object1(p, Arr(<<>>)))} =>
              CompilesTo(IF isArrayType THEN quoted \o "<>'{}'" ELSE "1=1", <<>>)

\* {aliases: {'!': []}}: a negated empty array on a string[] column
EmptyArrayCompilesWitness ==
  /\ call.op = "_buildWhereStatement"
  /\ call.where = Object1("aliases", Object1("!", Arr(<<>>)))
  /\ Render(result.whereStatement) = "WHERE \"alias_names\"<>'{}'"

\* C10: for a string v on a column that is not of an array type, contains,
\* startsWith and endsWith bind the one parameter '%v%', 'v%' and '%v' and
\* compile to "col" ILIKE $1, under a negation to "col" NOT ILIKE $1.
WildcardComparers ==
  call.op = "_buildWhereStatement" =>
    \A p \in Properties(Product), v \in {"abc", "Foo", ""} :
      LET column == Attribute(Product, p)
          quoted == "\"" \o column.name \o "\""
          isScalar ==
            column.type \notin {"array", "string[]", "integer[]", "float[]", "boolean[]"}
          holds(comparer, pattern) ==
            /\ call.where = Object1(p, Object1(comparer, Str(v))) =>
                 CompilesTo(quoted \o " ILIKE $1", <<Str(pattern)>>)
            /\ call.where \in {Object1(p, Object1("!", Object1(comparer, Str(v)))),
                               Object1(p, Object1("not", Object1(comparer, Str(v)))),
                               Object1("not", Object1(p, Object1(comparer, Str(v))))} =>
                 CompilesTo(quoted \o " NOT ILIKE $1", <<Str(pattern)>>)
      IN isScalar =>
           /\ holds("contains", "%" \o v \o "%")
           /\ holds("startsWith", v \o "%")
           /\ holds("endsWith", "%" \o v)

\* {name: {'!': {startsWith: 'abc'}}}
WildcardComparersWitness ==
  /\ call.op = "_buildWhereStatement"
  /\ call.where = Object1("name", Object1("!", Object1("startsWith", Str("abc"))))
  /\ Render(result.whereStatement) = "WHERE \"name\" NOT ILIKE $1"
  /\ result.params = <<Str("abc%")>>

\* C11: on the relation property store, an object that carries the primary
\* key of the related model compiles to the same fragment and params, or to
\* the same failure, as the value of that primary key, given directly or
\* under any comparer.
RelationObjectInterchangeable ==
  call.op = "_buildWhereStatement" =>
    \A object \in {x \in StoreObjects : ~isUndefined(Get(x, "id"))} :
      /\ call.where = Object1("store", object) =>
           result = buildWhereStatement(Product, Object1("store", Get(object, "id")), <<>>)
      /\ \A comparer \in PropertyComparers :
           call.where = Object1("store", Object1(comparer, object)) =>
             result = buildWhereStatement(
                        Product, Object1("store", Object1(comparer, Get(object, "id"))), <<>>)

\* an object with one key
IsSingleton(value) ==
  /\ isObject(value)
  /\ ~isArray(value)
  /\ ~isDate(value)
  /\ Len(value.o) = 1

\* an array of two or more elements, none of them null
IsPlainArray(value) ==
  /\ isArray(value)
  /\ Len(value.a) >= 2
  /\ \A i \in 1..Len(value.a) : ~isNull(value.a[i])

\* C12: an array of two or more non-null elements as the value of a
\* property whose column is not of an array type is bound whole as the one
\* parameter and compiles to "col"=ANY($1<cast>), under not / ! to
\* "col"<>ALL($1<cast>), the cast being ::INTEGER[] for integer, ::NUMERIC[]
\* for float, ::BOOLEAN[] for boolean and ::TEXT[] for any other type.
ArrayBoundWithCast ==
  call.op = "_buildWhereStatement" /\ IsSingleton(call.where) =>
    \A p \in Properties(Product) :
      LET column == Attribute(Product, p)
          quoted == "\"" \o column.name \o "\""
          isScalar ==
            column.type \notin {"array", "string[]", "integer[]", "float[]", "boolean[]"}
          cast == CASE column.type \in {"int", "integer"} -> "::INTEGER[]"
                    [] column.type = "float" -> "::NUMERIC[]"
                    [] column.type = "boolean" -> "::BOOLEAN[]"
                    [] OTHER -> "::TEXT[]"
          key == call.where.o[1].k
          value == call.where.o[1].v
      IN isScalar =>
           /\ key = p /\ IsPlainArray(value) =>
                CompilesTo(quoted \o "=ANY($1" \o cast \o ")", <<value>>)
           /\ key = p /\ IsSingleton(value) /\ value.o[1].k \in {"!", "not"}
                /\ IsPlainArray(value.o[1].v) =>
                CompilesTo(quoted \o "<>ALL($1" \o cast \o ")", <<value.o[1].v>>)

\* {price: [1, 2]}: an array on a float column
ArrayBoundWithCastWitness ==
  /\ call.op = "_buildWhereStatement"
  /\ call.where = Object1("price", Arr(<<Num(1), Num(2)>>))
  /\ Render(result.whereStatement) = "WHERE \"price\"=ANY($1::NUMERIC[])"
  /\ result.params = <<Arr(<<Num(1), Num(2)>>)>>

\* the statement the builder of the call makes of the arguments of the call
\* with the given returnRecords
Built(returnRecords) ==
  CASE call.op = "getInsertQueryAndParams" ->
         getInsertQueryAndParams(Product, call.values, returnRecords, call.returnSelect)
    [] call.op = "getUpdateQueryAndParams" ->
         getUpdateQueryAndParams(ModelNamed(call.schema), call.where, call.values,
                                 returnRecords, call.returnSelect)
    [] call.op = "getDeleteQueryAndParams" ->
         getDeleteQueryAndParams(Product, call.where, returnRecords, call.returnSelect)

\* the column list of the RETURNING clause of the call
ReturnedColumns ==
  LET model == IF call.op = "getUpdateQueryAndParams" THEN ModelNamed(call.schema)
               ELSE Product
      pk == primaryKeyColumn(model).propertyName
      list == call.returnSelect.list
  IN Join(ColumnsOf(model,
                    IF ~call.returnSelect.given THEN PlainProperties(model)
                    ELSE IF Contains(list, pk) THEN list
                    ELSE Append(list, pk)), ",")

\* C13: a statement of INSERT, UPDATE or DELETE built with returnRecords
\* true or left out is the statement built with returnRecords false,
\* followed by ' RETURNING ' and the column list and by nothing else; built
\* with returnRecords false it has no RETURNING; the params are the same.
ReturningWhenNotSuppressed ==
  /\ call.op \in {"getInsertQueryAndParams", "getUpdateQueryAndParams",
                  "getDeleteQueryAndParams"}
  /\ result.e = NoError
  => LET other == Built(call.given = Bool(FALSE))
     IN /\ call.given \in {Undefined, Bool(TRUE)} =>
             /\ other.e = NoError
             /\ result.query = other.query \o <<Txt(" RETURNING ")>> \o ReturnedColumns
             /\ result.params = other.params
        /\ call.given = Bool(FALSE) =>
             /\ ~Has(result.query, Txt(" RETURNING "))
             /\ other.e = NoError
             /\ result.params = other.params
             /\ other.query = result.query \o <<Txt(" RETURNING ")>> \o ReturnedColumns

\* an UPDATE with a where clause, returnRecords left out
ReturningWhenNotSuppressedWitness ==
  /\ call.op = "getUpdateQueryAndParams"
  /\ call.given = Undefined
  /\ result.e = NoError
  /\ HasWhereToken(result.query)
  /\ Len(result.params) >= 2
  /\ Has(result.query, Txt(" RETURNING "))

\* a key of a where tree, at any depth, is the given name
RECURSIVE MentionsKey(_, _)
MentionsKey(value, name) ==
  IF isArray(value) THEN \E i \in 1..Len(value.a) : MentionsKey(value.a[i], name)
  ELSE IF value.t = "object"
  THEN \E i \in 1..Len(value.o) :
         value.o[i].k = name \/ MentionsKey(value.o[i].v, name)
  ELSE FALSE

\* some value of a where tree, at any depth, is undefined
RECURSIVE HasUndefined(_)
HasUndefined(value) ==
  IF isUndefined(value) THEN TRUE
  ELSE IF isArray(value) THEN \E i \in 1..Len(value.a) : HasUndefined(value.a[i])
  ELSE IF value.t = "object" THEN \E i \in 1..Len(value.o) : HasUndefined(value.o[i].v)
  ELSE FALSE

\* a sort specification names the property
SortsMention(sorts, name) ==
  /\ isArray(sorts)
  /\ \E i \in 1..Len(orderProperties(sorts.a)) :
       orderProperties(sorts.a)[i].propertyName = name

\* C14: a where tree with a key that is no property of the model, whatever
\* the value given for it, a sort specification naming such a property and
\* an explicit select list holding one all end in UnknownPropertyError, with
\* no statement returned.
UnknownPropertyFails ==
  /\ call.op \in {"_buildWhereStatement", "getCountQueryAndParams"}
       /\ MentionsKey(call.where, "bogus") /\ ~HasUndefined(call.where)
     => result.e = UnknownPropertyError
  /\ call.op = "_getColumnsToSelect" /\ Contains(call.select.list, "bogus")
     => result.e = UnknownPropertyError /\ result.q = <<>>
  /\ call.op = "getSelectQueryAndParams"
       /\ (MentionsKey(call.where, "bogus") \/ SortsMention(call.sorts, "bogus"))
     => result.e = UnknownPropertyError /\ result.query = <<>>

\* an object without the primary key of Store
LacksKey(value) ==
  /\ value.t = "object"
  /\ isUndefined(Get(value, "id"))

\* C15: an object without the primary key of the related model, given for
\* the relation property store, ends in UndefinedValueError with no
\* statement returned: as a where value, in a row of INSERT and in the
\* values of UPDATE.
RelationObjectWithoutKeyFails ==
  /\ call.op = "_buildWhereStatement" /\ IsSingleton(call.where)
       /\ call.where.o[1].k = "store" /\ LacksKey(call.where.o[1].v)
       /\ call.where.o[1].v.o # <<>>
       /\ ~isComparer(call.where.o[1].v.o[1].k)
     => result.e = UndefinedValueError /\ result.whereStatement = <<>>
  /\ call.op = "getInsertQueryAndParams"
       /\ ~MissingRequired(Product, RowsOf(call.values))
       /\ (\E r \in 1..Len(RowsOf(call.values)) :
             LacksKey(Get(RowsOf(call.values)[r], "store")))
     => result.e = UndefinedValueError /\ result.query = <<>>
  /\ call.op = "getUpdateQueryAndParams" /\ LacksKey(Get(call.values, "store"))
     => result.e = UndefinedValueError /\ result.query = <<>>

\* a string, or an array of strings
IsPattern(value) ==
  \/ isString(value)
  \/ isArray(value) /\ \A i \in 1..Len(value.a) : isString(value.a[i])

\* C16: contains, startsWith, endsWith and like, given for a property a
\* value that is neither a string nor an array of strings, end in
\* InvalidConstraintError and no other error, with no fragment returned.
PatternValueValidated ==
  /\ call.op = "_buildWhereStatement"
  /\ IsSingleton(call.where)
  /\ IsSingleton(call.where.o[1].v)
  /\ call.where.o[1].v.o[1].k \in {"contains", "startsWith", "endsWith", "like"}
  /\ ~IsPattern(call.where.o[1].v.o[1].v)
  => /\ result.e = InvalidConstraintError
     /\ result.whereStatement = <<>>

\* a limit or skip after the coercion of a string
Coerced(value) == IF isString(value) THEN NumberOf(value.s) ELSE value

\* a limit or skip that is given and is no finite number after coercion
IsNotFinite(value) ==
  /\ ~isNil(value)
  /\ ~isFinite(Coerced(value))

\* the LIMIT or OFFSET clause of a finite number, or no clause
ClausesOf(keyword, value) ==
  IF isFinite(Coerced(value))
  THEN {<<>>, <<Txt(" " \o keyword \o " " \o ToString(Coerced(value).n))>>}
  ELSE {<<>>}

\* C17: a SELECT whose limit or skip is given and is no finite number after
\* the coercion of strings ends in InvalidArgumentError; a SELECT that is
\* built has its clauses in the order WHERE, ORDER BY, LIMIT n, OFFSET n,
\* the numbers written into the text and the params those of the where.
LimitAndSkipValidated ==
  /\ call.op = "getSelectQueryAndParams"
  /\ ~MentionsKey(call.where, "bogus")
  /\ ~SortsMention(call.sorts, "bogus")
  => /\ IsNotFinite(call.limit) \/ IsNotFinite(call.skip) =>
          /\ result.e = InvalidArgumentError
          /\ result.query = <<>>
     /\ result.e = NoError =>
          LET where == buildWhereStatement(Product, call.where, <<>>)
              order == buildOrderStatement(Product, call.sorts)
          IN /\ result.params = where.params
             /\ \E limit \in ClausesOf("LIMIT", call.limit),
                   skip \in ClausesOf("OFFSET", call.skip) :
                  result.query =
                    <<Txt("SELECT ")>> \o getColumnsToSelect(Product, call.select).q
                      \o <<Txt(" FROM "), Quoted("products")>>
                      \o WhereClause(where)
                      \o (IF order.q # <<>> THEN <<Txt(" ")>> \o order.q ELSE <<>>)
                      \o limit \o skip

\* an object whose one key is not or !
IsNegation(value) ==
  /\ IsSingleton(value)
  /\ value.o[1].k \in {"not", "!"}

\* C18: a where tree under two negations, and the value of a property under
\* two negations, compile to the fragment and params of the tree, or of the
\* value, without them.
DoubleNegationCancels ==
  call.op = "_buildWhereStatement" /\ IsSingleton(call.where) =>
    LET key == call.where.o[1].k
        value == call.where.o[1].v
    IN /\ IsNegation(call.where) /\ IsNegation(value) /\ value.o[1].v.t = "object" =>
            result = buildWhereStatement(Product, value.o[1].v, <<>>)
       /\ ~isComparer(key) /\ IsNegation(value) /\ IsNegation(value.o[1].v) =>
            result = buildWhereStatement(Product, Object1(key, value.o[1].v.o[1].v), <<>>)

\* the where trees {or: [E1, ..., En]} with one element or more
IsOr(where) ==
  /\ IsSingleton(where)
  /\ where.o[1].k = "or"
  /\ isArray(where.o[1].v)
  /\ Len(where.o[1].v.a) >= 1
  /\ \A i \in 1..Len(where.o[1].v.a) : where.o[1].v.a[i].t = "object"

\* the elements compiled one after the other, each as a where of its own,
\* negated or not, against the params the elements before it left:
\* [frags, p, e]
RECURSIVE Compiled(_, _, _, _)
Compiled(elements, negated, params, frags) ==
  IF elements = <<>> THEN [frags |-> frags, p |-> params, e |-> NoError]
  ELSE LET r == buildWhereStatement(
                  Product,
                  IF negated THEN Object1("not", Head(elements)) ELSE Head(elements),
                  params)
       IN IF r.e # NoError THEN [frags |-> <<>>, p |-> r.params, e |-> r.e]
          ELSE Compiled(Tail(elements), negated, r.params,
                        Append(frags, Fragment(r.whereStatement)))

\* each fragment in parentheses of its own
Parenthesised(frags) ==
  [i \in 1..Len(frags) |-> <<Txt("(")>> \o frags[i] \o <<Txt(")")>>]

\* what the claims about or are stated of: an or at the top of the where
\* tree, or under one negation
OrCase ==
  /\ call.op = "_buildWhereStatement"
  /\ \/ IsOr(call.where)
     \/ IsNegation(call.where) /\ IsOr(call.where.o[1].v)

\* C19 as stated: an or of one element compiles to that element, unwrapped;
\* of two or more, to the elements joined by AND under a negation and by OR
\* inside parentheses otherwise, the elements with or without parentheses
\* of their own; the elements share the negation and the params.
OrSingleUnwrapped ==
  OrCase =>
    LET negated == IsNegation(call.where)
        elements == IF negated THEN call.where.o[1].v.o[1].v.a ELSE call.where.o[1].v.a
        c == Compiled(elements, negated, <<>>, <<>>)
        text(frags) ==
          IF Len(frags) = 1 THEN frags[1]
          ELSE IF negated THEN Join(frags, " AND ")
          ELSE <<Txt("(")>> \o Join(frags, " OR ") \o <<Txt(")")>>
    IN IF c.e # NoError THEN result.e = c.e
       ELSE /\ result.e = NoError
            /\ result.params = c.p
            /\ Len(elements) = 1 => Fragment(result.whereStatement) = c.frags[1]
            /\ Len(elements) > 1 =>
                 Fragment(result.whereStatement) \in {text(c.frags), text(Parenthesised(c.frags))}

\* C19: every element of an or is compiled with the negation of the or and
\* against the one params list, and put in parentheses of its own; one
\* element gives that parenthesised clause and nothing around it, two or
\* more give the clauses joined by AND under a negation, and joined by OR
\* inside one more pair of parentheses otherwise.
OrJoinsClauses ==
  OrCase =>
    LET negated == IsNegation(call.where)
        elements == IF negated THEN call.where.o[1].v.o[1].v.a ELSE call.where.o[1].v.a
        c == Compiled(elements, negated, <<>>, <<>>)
        clauses == Parenthesised(c.frags)
    IN IF c.e # NoError THEN result.e = c.e
       ELSE /\ result.e = NoError
            /\ result.params = c.p
            /\ Fragment(result.whereStatement) =
                 IF Len(elements) = 1 THEN clauses[1]
                 ELSE IF negated THEN Join(clauses, " AND ")
                 ELSE <<Txt("(")>> \o Join(clauses, " OR ") \o <<Txt(")")>>

\* {or: [{name: 'abc'}]}
OrJoinsClausesWitness ==
  /\ call.op = "_buildWhereStatement"
  /\ call.where = Object1("or", Arr(<<Object1("name", Str("abc"))>>))
  /\ Render(result.whereStatement) = "WHERE (\"name\"=$1)"
  /\ result.params = <<Str("abc")>>

\* the operator the complement of a comparison is written with
Complement(comparer) ==
  CASE comparer = "<" -> ">="
    [] comparer = "<=" -> ">"
    [] comparer = ">" -> "<="
    [] comparer = ">=" -> "<"
    [] comparer = "=" -> "<>"

\* a value bound as it is: a string, a number, a boolean or a date
IsBoundScalar(value) == value.t \in {"string", "number", "boolean", "date"}

\* [comparer, value] of a constraint that is a bound scalar, or one relational
\* comparer over a bound scalar; [comparer |-> ""] for any other constraint
Comparison(constraint) ==
  IF IsBoundScalar(constraint) THEN [comparer |-> "=", value |-> constraint]
  ELSE IF /\ IsSingleton(constraint)
          /\ constraint.o[1].k \in {"<", "<=", ">", ">="}
          /\ IsBoundScalar(constraint.o[1].v)
  THEN [comparer |-> constraint.o[1].k, value |-> constraint.o[1].v]
  ELSE [comparer |-> ""]

\* [property, constraint] of a where tree that is one negation over one
\* property, the negation outside the property or right under it;
\* [property |-> ""] for any other tree
NegatedProperty(where) ==
  IF ~IsSingleton(where) THEN [property |-> ""]
  ELSE LET key == where.o[1].k
           value == where.o[1].v
       IN IF IsNegation(where) /\ IsSingleton(value) /\ ~isComparer(value.o[1].k)
          THEN [property |-> value.o[1].k, constraint |-> value.o[1].v]
          ELSE IF ~isComparer(key) /\ IsNegation(value)
          THEN [property |-> key, constraint |-> value.o[1].v]
          ELSE [property |-> ""]

\* the case of C20: a negated comparison of a property of the model with a
\* bound scalar, the column one that the comparer compares by operator
NegatedComparisonCase ==
  /\ call.op = "_buildWhereStatement"
  /\ LET n == NegatedProperty(call.where)
     IN /\ n.property # ""
        /\ getColumnName(Product, n.property).e = NoError
        /\ Comparison(n.constraint).comparer # ""
        /\ LET type == Attribute(Product, n.property).type
           IN IF Comparison(n.constraint).comparer = "=" THEN type # "array"
              ELSE type \notin {"array", "json"}

\* C20: a negated comparison of a column with a non-null scalar compiles to
\* the column, the complementary operator and one placeholder, "col"<op>$n,
\* with >= for <, > for <=, <= for >, < for >= and <> for the default =; the
\* value is the one parameter bound and the fragment has no NOT.
NegatedComparisonComplement ==
  NegatedComparisonCase =>
    LET n == NegatedProperty(call.where)
        c == Comparison(n.constraint)
    IN /\ result.e = NoError
       /\ result.params = <<c.value>>
       /\ Fragment(result.whereStatement) =
            <<Quoted(getColumnName(Product, n.property).name),
              Txt(Complement(c.comparer)),
              Placeholder(1, c.value)>>

\* {id: {'!': {'<': 5}}}
NegatedComparisonComplementWitness ==
  /\ call.op = "_buildWhereStatement"
  /\ call.where = Object1("id", Object1("!", Object1("<", Num(5))))
  /\ Render(result.whereStatement) = "WHERE \"id\">=$1"
  /\ result.params = <<Num(5)>>

\* C21: <, <=, > and >= over a non-null scalar on a column of an array type
\* (array, string[], integer[], float[], boolean[]) or of type json fail
\* with UnsupportedOperatorError.
RelationalUnsupportedOnArrays ==
  /\ call.op = "_buildWhereStatement"
  /\ IsSingleton(call.where)
  /\ getColumnName(Product, call.where.o[1].k).e = NoError
  /\ Attribute(Product, call.where.o[1].k).type \in ArrayTypes \cup {"json"}
  /\ Comparison(call.where.o[1].v).comparer \in {"<", "<=", ">", ">="}
  => result.e = UnsupportedOperatorError

\* [property, negated, value] of a where tree that is one property over a
\* value, or over one negation of a value; [property |-> ""] otherwise
PropertyValue(where) ==
  IF ~IsSingleton(where) \/ isComparer(where.o[1].k) THEN [property |-> ""]
  ELSE IF IsNegation(where.o[1].v)
  THEN [property |-> where.o[1].k, negated |-> TRUE, value |-> where.o[1].v.o[1].v]
  ELSE [property |-> where.o[1].k, negated |-> FALSE, value |-> where.o[1].v]

\* $n=ANY("col"), $n<>ALL("col") when negated
MembershipTerm(columnName, negated, n, value) ==
  <<Placeholder(n, value), Txt(IF negated THEN "<>ALL(" ELSE "=ANY("),
    Quoted(columnName), Txt(")")>>

\* C22: on a column of an array type (array, string[], integer[], float[],
\* boolean[]) a non-null scalar compiles to $n=ANY("col") ($n<>ALL("col")
\* when negated), and an array of two or more non-null scalars to one such
\* term for each element, each element a parameter of its own, joined by OR
\* inside parentheses (by AND when negated).
ScalarOnArrayColumnReversed ==
  call.op = "_buildWhereStatement" =>
    LET c == PropertyValue(call.where)
        columnName == getColumnName(Product, c.property).name
        terms == [i \in 1..Len(c.value.a) |->
                    MembershipTerm(columnName, c.negated, i, c.value.a[i])]
    IN /\ c.property # ""
       /\ getColumnName(Product, c.property).e = NoError
       /\ Attribute(Product, c.property).type \in ArrayTypes
       => /\ IsBoundScalar(c.value) =>
               /\ result.e = NoError
               /\ result.params = <<c.value>>
               /\ Fragment(result.whereStatement) =
                    MembershipTerm(columnName, c.negated, 1, c.value)
          /\ /\ isArray(c.value)
             /\ Len(c.value.a) >= 2
             /\ \A i \in 1..Len(c.value.a) : IsBoundScalar(c.value.a[i])
             => /\ result.e = NoError
                /\ result.params = c.value.a
                /\ Fragment(result.whereStatement) =
                     IF c.negated THEN Join(terms, " AND ")
                     ELSE <<Txt("(")>> \o Join(terms, " OR ") \o <<Txt(")")>>

\* the case of C23: one property of the model, its column not of an array
\* type, over null or over a non-empty array with a null in it whose other
\* elements are non-null scalars, plain or under one negation
NullCase ==
  /\ call.op = "_buildWhereStatement"
  /\ LET c == PropertyValue(call.where)
     IN /\ c.property # ""
        /\ getColumnName(Product, c.property).e = NoError
        /\ Attribute(Product, c.property).type \notin ArrayTypes
        /\ \/ isNull(c.value)
           \/ /\ isArray(c.value)
              /\ \E i \in 1..Len(c.value.a) : isNull(c.value.a[i])
              /\ \A i \in 1..Len(c.value.a) :
                   isNull(c.value.a[i]) \/ IsBoundScalar(c.value.a[i])

\* C23: null compiles to "col" IS NULL, "col" IS NOT NULL when negated, and
\* binds nothing; in an array every null gives such a term, the other
\* elements give one term after them that binds them without the nulls (one
\* element by = or <>, two or more as one array by =ANY or <>ALL with the
\* cast); one term stands as it is, several are joined by AND when negated
\* and by OR inside parentheses otherwise.
NullCompilesToIsNull ==
  NullCase =>
    LET c == PropertyValue(call.where)
        column == Attribute(Product, c.property)
        quoted == Quoted(getColumnName(Product, c.property).name)
        nullTerm == <<quoted, Txt(IF c.negated THEN " IS NOT NULL" ELSE " IS NULL")>>
        elements == IF isArray(c.value) THEN c.value.a ELSE <<c.value>>
        nulls == SelectSeq(elements, LAMBDA x : isNull(x))
        others == SelectSeq(elements, LAMBDA x : ~isNull(x))
        otherTerms ==
          IF others = <<>> THEN <<>>
          ELSE IF Len(others) = 1
          THEN << <<quoted, Txt(IF c.negated THEN "<>" ELSE "="),
                    Placeholder(1, others[1])>> >>
          ELSE << <<quoted, Txt(IF c.negated THEN "<>ALL(" ELSE "=ANY("),
                    Placeholder(1, Arr(others)), Txt(CastType(column.type)), Txt(")")>> >>
        terms == [i \in 1..Len(nulls) |-> nullTerm] \o otherTerms
    IN /\ result.e = NoError
       /\ result.params = IF others = <<>> THEN <<>>
                          ELSE IF Len(others) = 1 THEN others
                          ELSE <<Arr(others)>>
       /\ Render(Fragment(result.whereStatement)) =
            Render(IF Len(terms) = 1 THEN terms[1]
                   ELSE IF c.negated THEN Join(terms, " AND ")
                   ELSE <<Txt("(")>> \o Join(terms, " OR ") \o <<Txt(")")>>)

\* {name: [null, 'a', 1]}: the null is left out of the array that is bound
NullCompilesToIsNullWitness ==
  /\ call.op = "_buildWhereStatement"
  /\ call.where = Object1("name", Arr(<<Null, Str("a"), Num(1)>>))
  /\ Render(result.whereStatement) = "WHERE (\"name\" IS NULL OR \"name\"=ANY($1::TEXT[]))"
  /\ result.params = <<Arr(<<Str("a"), Num(1)>>)>>

\* the keys C24 lists as the comparators
ReservedTokens ==
  {"or", "not", "!", "contains", "startsWith", "endsWith", "like", "<", "<=", ">", ">="}

\* C24: a key of a where object is a comparator exactly when it is one of
\* or, not, !, contains, startsWith, endsWith, like, <, <=, >, >=; any other
\* key is compiled as the name of a property over its value.
KeysOutsideTokensAreProperties ==
  /\ call.op = "_buildWhereStatement"
  /\ IsSingleton(call.where)
  /\ call.where.o[1].k \notin ReservedTokens
  => LET r == buildWhere(Product, call.where.o[1].k, "", FALSE, call.where.o[1].v, <<>>)
     IN /\ ~isComparer(call.where.o[1].k)
        /\ result.e = r.e
        /\ result.params = r.p
        /\ Fragment(result.whereStatement) = r.q

\* the value a row has for a column once the defaults are applied
ValueAfterDefaults(row, column) ==
  IF isUndefined(Get(row, column.propertyName)) THEN defaultValue(column)
  ELSE Get(row, column.propertyName)

\* the non-collection columns some row of the batch has a value for
ColumnsWithValue(model, rows) ==
  SelectSeq(model.columns,
            LAMBDA column :
              /\ ~column.collection
              /\ \E r \in 1..Len(rows) : ~isUndefined(ValueAfterDefaults(rows[r], column)))

\* C25: the column list of an INSERT is the non-collection columns that
\* some row has a value for once the defaults are applied, in the order of
\* the model; VALUES has one tuple for each row and each tuple one cell for
\* each listed column, in the order of the list; the cell of a row without a
\* value for the column is the literal NULL, any other cell is a
\* placeholder, and params has one value for each placeholder.
InsertListsColumnsWithValue ==
  InsertBuilt =>
    LET rows == RowsOf(call.values)
        listed == ColumnsWithValue(Product, rows)
        columns == InsertColumns(result.query)
        tuples == Tuples(ValuesPart(result.query))
        cells == (1..Len(rows)) \X (1..Len(listed))
        lacking == {x \in cells : isNil(ValueAfterDefaults(rows[x[1]], listed[x[2]]))}
    IN /\ columns = [i \in 1..Len(listed) |-> <<Quoted(listed[i].name)>>]
       /\ Len(tuples) = Len(rows)
       /\ \A r \in 1..Len(rows) : Len(tuples[r]) = Len(listed)
       /\ \A x \in cells :
            IF x \in lacking THEN tuples[x[1]][x[2]] = <<Txt("NULL")>>
            ELSE IsPlaceholder(tuples[x[1]][x[2]][1])
       /\ Len(result.params) = Cardinality(cells \ lacking)

\* two rows, the store given by one of them only: store_id is listed and
\* the other row has NULL for it
InsertListsColumnsWithValueWitness ==
  /\ InsertBuilt
  /\ Len(RowsOf(call.values)) = 2
  /\ ~isUndefined(Get(call.values.a[1], "store"))
  /\ isUndefined(Get(call.values.a[2], "store"))
  /\ Has(result.query, Quoted("store_id"))
  /\ Has(result.query, Txt("NULL"))
  /\ ~Has(result.query, Quoted("sku"))

\* the parentheses a token of a where fragment opens, less those it closes
ParenDelta(tok) ==
  IF IsPlaceholder(tok) THEN 0
  ELSE CASE tok.s \in {"(", "=ANY(", "<>ALL(", "lower("} -> 1
         [] tok.s = "EXISTS(SELECT 1 FROM (SELECT unnest(" -> 3
         [] tok.s \in {")", ") AS ", ") __unnested WHERE ", "::TEXT[])", "::INTEGER[])",
                       "::NUMERIC[])", "::BOOLEAN[])"} -> -1
         [] tok.s = "::TEXT[]))" -> -2
         [] OTHER -> 0

\* the number of parentheses open before token i
RECURSIVE DepthAt(_, _)
DepthAt(q, i) == IF i = 1 THEN 0 ELSE DepthAt(q, i - 1) + ParenDelta(q[i - 1])

\* the positions of the ANDs and ORs of a fragment
Connectives(q) == {i \in 1..Len(q) : q[i] \in {Txt(" AND "), Txt(" OR ")}}

\* tokens i and j join terms of one group: they are at the same depth and
\* the parenthesis they are in is not closed between them
SameGroup(q, i, j) ==
  /\ DepthAt(q, i) = DepthAt(q, j)
  /\ \A k \in i..j : DepthAt(q, k) >= DepthAt(q, i)

\* C26: in a compiled where fragment every OR is inside parentheses, and
\* the terms of one parenthesised group, and those outside all parentheses,
\* are joined all by AND or all by OR, at any depth and under negation.
PrecedencePreserved ==
  call.op = "_buildWhereStatement" /\ result.e = NoError =>
    LET q == result.whereStatement
    IN /\ \A i \in 1..Len(q) : q[i] = Txt(" OR ") => DepthAt(q, i) >= 1
       /\ \A i, j \in Connectives(q) : i < j /\ SameGroup(q, i, j) => q[i] = q[j]
       /\ DepthAt(q, Len(q) + 1) = 0

\* an or of two clauses joined by AND with a sibling term: the AND outside
\* all parentheses, the OR inside one pair
PrecedencePreservedWitness ==
  /\ call.op = "_buildWhereStatement"
  /\ result.e = NoError
  /\ LET q == result.whereStatement
     IN \E i, j \in Connectives(q) :
          /\ q[i] = Txt(" AND ")
          /\ q[j] = Txt(" OR ")
          /\ DepthAt(q, i) = 0
          /\ DepthAt(q, j) = 1

\* a fragment with the numbers of its placeholders left out
Unnumbered(q) ==
  [i \in 1..Len(q) |-> IF IsPlaceholder(q[i]) THEN [v |-> q[i].v] ELSE q[i]]

\* the terms a fragment joins by AND, as a set
AndTerms(whereStatement) ==
  LET terms == Split(Unnumbered(Fragment(whereStatement)), Txt(" AND "))
  IN {terms[i] : i \in 1..Len(terms)}

\* C27: the two keys of an object node compile the same whichever comes
\* first: the same error or none, and the same AND-joined terms in the other
\* order; a comparer key is not compiled against the property of a sibling
\* key that precedes it.
SiblingOrderIrrelevant ==
  /\ call.op = "_buildWhereStatement"
  /\ call.where.t = "object"
  /\ Len(call.where.o) = 2
  => LET swapped == Obj(<<call.where.o[2], call.where.o[1]>>)
         r == buildWhereStatement(Product, swapped, <<>>)
     IN /\ result.e = r.e
        /\ AndTerms(result.whereStatement) = AndTerms(r.whereStatement)

\* the values C28 names for a relational comparer: a non-null scalar, an
\* array of such scalars of any length, or one negation over such a scalar
IsRelationalOperand(value) ==
  \/ IsBoundScalar(value)
  \/ /\ isArray(value)
     /\ \A i \in 1..Len(value.a) : IsBoundScalar(value.a[i])
  \/ IsNegation(value) /\ IsBoundScalar(value.o[1].v)

\* C28: a where tree {p: {op: v}} with op one of <, <=, >, >= that compiles
\* has op in its fragment, or the complement of op when v is under a
\* negation, whether v is a scalar, an array or a negated scalar.
RelationalComparerKept ==
  /\ call.op = "_buildWhereStatement"
  /\ IsSingleton(call.where)
  /\ ~isComparer(call.where.o[1].k)
  /\ IsSingleton(call.where.o[1].v)
  /\ call.where.o[1].v.o[1].k \in {"<", "<=", ">", ">="}
  /\ IsRelationalOperand(call.where.o[1].v.o[1].v)
  /\ result.e = NoError
  => LET comparer == call.where.o[1].v.o[1].k
         operand == call.where.o[1].v.o[1].v
     IN Has(result.whereStatement,
            Txt(IF IsNegation(operand) THEN Complement(comparer) ELSE comparer))

\* C29: in a compiled where fragment nothing joined is empty: no pair of
\* parentheses with nothing inside, no AND or OR at either end, right after
\* an opening parenthesis, right before a closing one or next to another
\* AND or OR; and WHERE is followed by a term.
NoEmptyOperand ==
  call.op = "_buildWhereStatement" /\ result.e = NoError =>
    LET q == result.whereStatement
        joins == {Txt(" AND "), Txt(" OR ")}
    IN /\ q # <<>> => Len(q) >= 2 /\ q[1] = Txt("WHERE ")
       /\ \A i \in 1..Len(q) :
            /\ q[i] \in joins \cup {Txt("WHERE "), Txt("(")} =>
                 /\ i < Len(q)
                 /\ q[i + 1] \notin joins \cup {Txt(")")}

\* C30: when getInsertQueryAndParams, getUpdateQueryAndParams or
\* _getColumnsToSelect is over, having returned or thrown, the rows to
\* insert, the values to update and the select list hold what they held
\* when it was called.
InputsUnchanged ==
  /\ call.op = "getInsertQueryAndParams" => result.entities = RowsOf(call.values)
  /\ call.op = "getUpdateQueryAndParams" => result.values = call.values
  /\ call.op = "_getColumnsToSelect" => result.select = call.select

====
